---- MODULE Spec2Model ----
(***************************************************************************)
(* Solidry: the admission controller (RateLimiter), the request handlers   *)
(* that use it (POST /api/analyze-multi, POST /api/analyze) and the cache  *)
(* key derivation (AnalysisCache.generateKey), as state machines.          *)
(*                                                                         *)
(* Time is counted in abstract ticks.  The source sets windowMs and ttlMs  *)
(* to 24 h in milliseconds; the model scales both to a few ticks, which    *)
(* keeps every comparison of the source (now - start >= windowMs) intact.  *)
(***************************************************************************)
EXTENDS Integers, Sequences, FiniteSets, TLC

\* ------------------------------------------------------------------ bounds

\* Length of the admission window in ticks (RateLimitConfig.windowMs, scaled).
windowMs == 2

\* The clock runs from 0 to MaxTime.
MaxTime == 4

\* Total number of consume calls a run of the limiter specification makes.
MaxConsumes == 6

\* Time-to-live of a cached result in ticks (CacheConfig.ttlMs, scaled).
ttlMs == 2

\* The clock of the route specification runs from 0 to RouteMaxTime.
RouteMaxTime == 2

\* Request handlers that can be in flight at once.
NReq == 2

\* Requests that arrive in one run of the route specification.
MaxArrivals == 4

\* Distinct texts callers submit.
NFps == 1

\* Files in one multi-file request (the handler accepts up to 20).
MaxFiles == 2

\* Longest text handed to generateKey.
MaxLen == 2

\* Longest list of review types handed to generateKey.
MaxTypes == 2

\* Capacity of the cache (CacheConfig.maxEntries, scaled: 100 by default, 3 in
\* the eviction test).
maxEntries == 2

\* Distinct requests (texts) the callers of the cache use.
NKeys == 3

\* Distinct payloads stored.
NResults == 2

\* The clock of the cache specification runs from 0 to CacheMaxTime.
CacheMaxTime == 3

\* Calls made to the cache in one run of the cache specification.
MaxCacheOps == 5

\* Longest header value handed to getClientIp.
MaxHeaderLen == 2

\* Runs of equal lines a text handed to calculateConfidence is made of.
MaxRuns == 2

\* Findings handed to calculateConfidence.
MaxIssues == 2

\* DEFAULT_CONFIG.maxRequestsPerDay
maxRequestsPerDay == 3

\* Caller identities, as getClientIp returns them.
IPs == {"192.168.1.1", "192.168.1.2"}

VARIABLES
    store,       \* RateLimiter.store : Map<ip, {count, windowStart}>
    now,         \* Date.now()
    lastOp,      \* the limiter method called last: "none", "check", "consume", "tick"
    lastIp,      \* its argument
    lastResult,  \* the RateLimitResult it returned
    hist,        \* per ip, the consume calls made so far: <<[t, allowed, remaining]>>
    demoMode,    \* isDemoMode(): fixed by the environment the process starts in
    reqs,        \* the request handlers in flight, each with its position
    lastResp,    \* the request the last step answered, if it answered one
    arrivals,    \* requests received so far
    alog,        \* per ip, when each provider analysis of /api/analyze-multi finished
    answeredAt,  \* per fingerprint, when a result for it was first returned (-1: never)
    keyArgs,     \* the arguments of the generateKey call at hand
    keyOut,      \* the key it returned (<< >>: not called yet)
    prevArgs,    \* the arguments of the generateKey call before it
    prevOut,     \* the key that call returned (<< >>: there was none)
    cache,       \* AnalysisCache.cache : Map<key, CacheEntry>, in insertion order
    hitCount,    \* AnalysisCache.hitCount
    missCount,   \* AnalysisCache.missCount
    cacheOp,     \* the cache method called last
    cacheKey,    \* the key of its arguments (<< >>: it takes none)
    cacheRet,    \* what it returned
    cacheOps,    \* calls made to the cache so far
    nGets,       \* get calls since the last resetStats
    getsSince,   \* per key, get calls since the latest set on it
    lastSet,     \* per key, the payload and time of the latest set on it
    dropped,     \* per key, whether its entry was removed since the latest set on it
    confIn,      \* the arguments of a calculateConfidence call
    confOut,     \* the ConfidenceScore it returned (level "none": not called yet)
    anaIn,       \* the config of an analyzeCode call, the findings and the mode
    anaOut,      \* language and confidence of the AnalysisResult it returned
    ipHeaders,   \* the headers of the request handed to getClientIp
    ipOut,       \* whether getClientIp was called and what it returned
    shadow,      \* the store of a limiter given the same calls and never swept
    shadowResult \* what that limiter returned to the latest call

limVars == <<store, now>>
clientVars == <<lastOp, lastIp, lastResult, hist>>
routeVars == <<demoMode, reqs, lastResp, arrivals, alog, answeredAt>>
keyVars == <<keyArgs, keyOut, prevArgs, prevOut>>
cacheVars == <<cache, hitCount, missCount, cacheOp, cacheKey, cacheRet,
               cacheOps, nGets, getsSince, lastSet, dropped>>
confVars == <<confIn, confOut>>
analyzeVars == <<anaIn, anaOut>>
ipVars == <<ipHeaders, ipOut>>
sweepVars == <<shadow, shadowResult>>
vars == <<store, now, lastOp, lastIp, lastResult, hist,
          demoMode, reqs, lastResp, arrivals, alog, answeredAt,
          keyArgs, keyOut, prevArgs, prevOut,
          cache, hitCount, missCount, cacheOp, cacheKey, cacheRet,
          cacheOps, nGets, getsSince, lastSet, dropped, confIn, confOut,
          anaIn, anaOut, ipHeaders, ipOut, shadow, shadowResult>>

\* ------------------------------------------------------------ RateLimiter

NoResult == [allowed |-> FALSE, remaining |-> -1, resetAt |-> -1, limit |-> -1]

\* Map.set(ip, entry)
MapSet(s, ip, entry) ==
    [i \in (DOMAIN s) \cup {ip} |-> IF i = ip THEN entry ELSE s[i]]

\* now - entry.windowStart >= this.config.windowMs
windowExpired(entry, t) == t - entry.windowStart >= windowMs

Max(a, b) == IF a >= b THEN a ELSE b

\* check that still admits a caller whose count has reached the limit.
checkAllowedAtLimit(s, ip, t) ==
    IF ip \notin DOMAIN s
    THEN [allowed |-> TRUE, remaining |-> maxRequestsPerDay,
          resetAt |-> t + windowMs, limit |-> maxRequestsPerDay]
    ELSE IF windowExpired(s[ip], t)
    THEN [allowed |-> TRUE, remaining |-> maxRequestsPerDay,
          resetAt |-> t + windowMs, limit |-> maxRequestsPerDay]
    ELSE LET remaining == Max(0, maxRequestsPerDay - s[ip].count)
         IN  [allowed |-> remaining >= 0, remaining |-> remaining,
              resetAt |-> s[ip].windowStart + windowMs,
              limit |-> maxRequestsPerDay]

\* RateLimiter.check(ip): the result it returns (it writes nothing).
check(s, ip, t) ==
    IF ip \notin DOMAIN s
    THEN [allowed |-> TRUE, remaining |-> maxRequestsPerDay,
          resetAt |-> t + windowMs, limit |-> maxRequestsPerDay]
    ELSE IF windowExpired(s[ip], t)
    THEN [allowed |-> TRUE, remaining |-> maxRequestsPerDay,
          resetAt |-> t + windowMs, limit |-> maxRequestsPerDay]
    ELSE LET remaining == Max(0, maxRequestsPerDay - s[ip].count)
         IN  [allowed |-> remaining > 0, remaining |-> remaining,
              resetAt |-> s[ip].windowStart + windowMs,
              limit |-> maxRequestsPerDay]

\* consume with the expiry test off by one (> for >=).
consumeLateExpiry(s, ip, t) ==
    IF ip \notin DOMAIN s \/ t - s[ip].windowStart > windowMs
    THEN [store  |-> MapSet(s, ip, [count |-> 1, windowStart |-> t]),
          result |-> [allowed |-> TRUE, remaining |-> maxRequestsPerDay - 1,
                      resetAt |-> t + windowMs, limit |-> maxRequestsPerDay]]
    ELSE LET count == s[ip].count + 1
             remaining == Max(0, maxRequestsPerDay - count)
         IN  [store  |-> MapSet(s, ip, [count |-> count,
                                        windowStart |-> s[ip].windowStart]),
              result |-> [allowed |-> remaining >= 0 /\ count <= maxRequestsPerDay,
                          remaining |-> remaining,
                          resetAt |-> s[ip].windowStart + windowMs,
                          limit |-> maxRequestsPerDay]]

\* consume that reports allowed from the remaining count alone.
consumeAllowedByRemaining(s, ip, t) ==
    IF ip \notin DOMAIN s \/ windowExpired(s[ip], t)
    THEN [store  |-> MapSet(s, ip, [count |-> 1, windowStart |-> t]),
          result |-> [allowed |-> TRUE, remaining |-> maxRequestsPerDay - 1,
                      resetAt |-> t + windowMs, limit |-> maxRequestsPerDay]]
    ELSE LET count == s[ip].count + 1
             remaining == Max(0, maxRequestsPerDay - count)
         IN  [store  |-> MapSet(s, ip, [count |-> count,
                                        windowStart |-> s[ip].windowStart]),
              result |-> [allowed |-> remaining >= 0,
                          remaining |-> remaining,
                          resetAt |-> s[ip].windowStart + windowMs,
                          limit |-> maxRequestsPerDay]]

\* consume with the expiry test one instant early.
consumeEarlyExpiry(s, ip, t) ==
    IF ip \notin DOMAIN s \/ t - s[ip].windowStart >= windowMs - 1
    THEN [store  |-> MapSet(s, ip, [count |-> 1, windowStart |-> t]),
          result |-> [allowed |-> TRUE, remaining |-> maxRequestsPerDay - 1,
                      resetAt |-> t + windowMs, limit |-> maxRequestsPerDay]]
    ELSE LET count == s[ip].count + 1
             remaining == Max(0, maxRequestsPerDay - count)
         IN  [store  |-> MapSet(s, ip, [count |-> count,
                                        windowStart |-> s[ip].windowStart]),
              result |-> [allowed |-> remaining >= 0 /\ count <= maxRequestsPerDay,
                          remaining |-> remaining,
                          resetAt |-> s[ip].windowStart + windowMs,
                          limit |-> maxRequestsPerDay]]

\* consume that reports what remained before this request was counted.
consumeRemainingBefore(s, ip, t) ==
    IF ip \notin DOMAIN s \/ windowExpired(s[ip], t)
    THEN [store  |-> MapSet(s, ip, [count |-> 1, windowStart |-> t]),
          result |-> [allowed |-> TRUE, remaining |-> maxRequestsPerDay,
                      resetAt |-> t + windowMs, limit |-> maxRequestsPerDay]]
    ELSE LET count == s[ip].count + 1
             remaining == Max(0, maxRequestsPerDay - s[ip].count)
         IN  [store  |-> MapSet(s, ip, [count |-> count,
                                        windowStart |-> s[ip].windowStart]),
              result |-> [allowed |-> remaining >= 0 /\ count <= maxRequestsPerDay,
                          remaining |-> remaining,
                          resetAt |-> s[ip].windowStart + windowMs,
                          limit |-> maxRequestsPerDay]]

\* consume that refuses the request that takes the last slot of the quota.
consumeRefusingLastSlot(s, ip, t) ==
    IF ip \notin DOMAIN s \/ windowExpired(s[ip], t)
    THEN [store  |-> MapSet(s, ip, [count |-> 1, windowStart |-> t]),
          result |-> [allowed |-> TRUE, remaining |-> maxRequestsPerDay - 1,
                      resetAt |-> t + windowMs, limit |-> maxRequestsPerDay]]
    ELSE LET count == s[ip].count + 1
             remaining == Max(0, maxRequestsPerDay - count)
         IN  [store  |-> MapSet(s, ip, [count |-> count,
                                        windowStart |-> s[ip].windowStart]),
              result |-> [allowed |-> remaining >= 0 /\ count < maxRequestsPerDay,
                          remaining |-> remaining,
                          resetAt |-> s[ip].windowStart + windowMs,
                          limit |-> maxRequestsPerDay]]

\* RateLimiter.consume(ip): the store it leaves and the result it returns.
consume(s, ip, t) ==
    IF ip \notin DOMAIN s \/ windowExpired(s[ip], t)
    THEN [store  |-> MapSet(s, ip, [count |-> 1, windowStart |-> t]),
          result |-> [allowed |-> TRUE, remaining |-> maxRequestsPerDay - 1,
                      resetAt |-> t + windowMs, limit |-> maxRequestsPerDay]]
    ELSE LET count == s[ip].count + 1
             remaining == Max(0, maxRequestsPerDay - count)
         IN  [store  |-> MapSet(s, ip, [count |-> count,
                                        windowStart |-> s[ip].windowStart]),
              result |-> [allowed |-> remaining >= 0 /\ count <= maxRequestsPerDay,
                          remaining |-> remaining,
                          resetAt |-> s[ip].windowStart + windowMs,
                          limit |-> maxRequestsPerDay]]

\* startCleanup with the expiry test one instant early.
limiterCleanupEarly(s, t) ==
    LET kept == {ip \in DOMAIN s : ~(t - s[ip].windowStart >= windowMs - 1)}
    IN  [ip \in kept |-> s[ip]]

\* RateLimiter.startCleanup, the interval callback: the store it leaves.
limiterCleanup(s, t) ==
    LET kept == {ip \in DOMAIN s : ~(t - s[ip].windowStart >= windowMs)}
    IN  [ip \in kept |-> s[ip]]

\* No second limiter at hand.
NoShadow == shadow = << >> /\ shadowResult = NoResult

\* ------------------------------------------- AnalysisCache.generateKey
\* Strings are sequences of UTF-16 code units, as charCodeAt, the default
\* sort and the template string see them.

\* ReviewType = 'solid' | 'hygiene' | 'unnecessary' | 'simplicity'
ReviewTypes ==
    { <<115, 111, 108, 105, 100>>,
      <<104, 121, 103, 105, 101, 110, 101>>,
      <<117, 110, 110, 101, 99, 101, 115, 115, 97, 114, 121>>,
      <<115, 105, 109, 112, 108, 105, 99, 105, 116, 121>> }

\* The languages of the generateKey tests: 'typescript', 'javascript'.
Languages ==
    { <<116, 121, 112, 101, 115, 99, 114, 105, 112, 116>>,
      <<106, 97, 118, 97, 115, 99, 114, 105, 112, 116>> }

\* Code units the texts are made of: '0', '2', 'r'.
TextChars == {48, 50, 114}

SeqsUpTo(S, n) == UNION {[1..k -> S] : k \in 0..n}

\* The arguments generateKey is called with.
KeyInputs ==
    [code : SeqsUpTo(TextChars, MaxLen), language : Languages,
     reviewTypes : SeqsUpTo(ReviewTypes, MaxTypes)]

NoArgs == [code |-> << >>, language |-> << >>, reviewTypes |-> << >>]

\* a ^ b on non-negative integers.
RECURSIVE Xor(_, _)
Xor(a, b) ==
    IF a = 0 THEN b
    ELSE IF b = 0 THEN a
    ELSE (((a % 2) + (b % 2)) % 2) + (2 * Xor(a \div 2, b \div 2))

\* hash = (hash * 33) ^ str.charCodeAt(i), on the 32 bits that ^ keeps
\* (ToInt32), held as two 16-bit halves; the code unit only reaches the low
\* half.
RECURSIVE hashLoop(_, _, _)
hashLoop(hash, str, i) ==
    IF i > Len(str) THEN hash
    ELSE LET lo33 == hash.lo * 33
             hi33 == (hash.hi * 33 + (lo33 \div 65536)) % 65536
         IN  hashLoop([hi |-> hi33, lo |-> Xor(lo33 % 65536, str[i])], str, i + 1)

RECURSIVE stripLeadingZeros(_)
stripLeadingZeros(ds) ==
    IF Len(ds) > 1 /\ ds[1] = 0 THEN stripLeadingZeros(Tail(ds)) ELSE ds

\* (hash >>> 0).toString(16): the hexadecimal digits of the unsigned 32-bit
\* value, without leading zeros, in lower case.
toString16(hash) ==
    LET ds == stripLeadingZeros(
                  << hash.hi \div 4096, (hash.hi \div 256) % 16,
                     (hash.hi \div 16) % 16, hash.hi % 16,
                     hash.lo \div 4096, (hash.lo \div 256) % 16,
                     (hash.lo \div 16) % 16, hash.lo % 16 >>)
    IN  [k \in 1..Len(ds) |-> IF ds[k] < 10 THEN 48 + ds[k] ELSE 87 + ds[k]]

\* AnalysisCache.hashCode(str): djb2 with xor, started at 5381.
hashCode(str) == toString16(hashLoop([hi |-> 0, lo |-> 5381], str, 1))

\* a < b as the default sort compares strings: by code units, a proper prefix
\* first.
RECURSIVE stringLess(_, _)
stringLess(a, b) ==
    IF b = << >> THEN FALSE
    ELSE IF a = << >> THEN TRUE
    ELSE IF a[1] # b[1] THEN a[1] < b[1]
    ELSE stringLess(Tail(a), Tail(b))

RECURSIVE insertSorted(_, _)
insertSorted(sorted, x) ==
    IF sorted = << >> THEN <<x>>
    ELSE IF stringLess(x, sorted[1]) THEN <<x>> \o sorted
    ELSE <<sorted[1]>> \o insertSorted(Tail(sorted), x)

\* [...reviewTypes].sort()
RECURSIVE sort(_)
sort(types) ==
    IF types = << >> THEN << >>
    ELSE insertSorted(sort(SubSeq(types, 1, Len(types) - 1)), types[Len(types)])

\* types.join(',')
RECURSIVE join(_)
join(types) ==
    IF types = << >> THEN << >>
    ELSE IF Len(types) = 1 THEN types[1]
    ELSE types[1] \o <<44>> \o join(Tail(types))

\* generateKey that joins the review types in the order given.
generateKeyUnsorted(code, language, reviewTypes) ==
    hashCode(code) \o <<58>> \o language \o <<58>> \o join(reviewTypes)

\* AnalysisCache.generateKey: `${codeHash}:${language}:${sortedTypes}`
generateKey(code, language, reviewTypes) ==
    hashCode(code) \o <<58>> \o language \o <<58>> \o join(sort(reviewTypes))

\* ---------------------------------------------------------- AnalysisCache

\* The texts the callers of the cache submit: '0', '2', 'r', '02', '20', 'r0'.
CacheCodes == << <<48>>, <<50>>, <<114>>, <<48, 50>>, <<50, 48>>, <<114, 48>> >>

\* The requests of the cache tests: NKeys texts, 'typescript', ['solid'].
CacheArgs ==
    { [code |-> CacheCodes[i],
       language |-> <<116, 121, 112, 101, 115, 99, 114, 105, 112, 116>>,
       reviewTypes |-> << <<115, 111, 108, 105, 100>> >>] : i \in 1..NKeys }

CacheKeys == {generateKey(a.code, a.language, a.reviewTypes) : a \in CacheArgs}

\* Payloads (AnalysisResult.score of createMockResult).
Results == 1..NResults

\* get returning null.
Miss == [hit |-> FALSE, score |-> 0, cachedAt |-> -1, fromCache |-> FALSE,
         cacheHits |-> 0]

NoRet == [none |-> TRUE]

\* Position of key in the map's insertion order, 0 if it has no entry.
indexOf(c, key) ==
    IF \E i \in 1..Len(c) : c[i].key = key
    THEN CHOOSE i \in 1..Len(c) : c[i].key = key
    ELSE 0

\* Map.delete of the entry at position i.
deleteAt(c, i) == SubSeq(c, 1, i - 1) \o SubSeq(c, i + 1, Len(c))

\* now - entry.createdAt > this.config.ttlMs
entryExpired(entry, t) == t - entry.createdAt > ttlMs

\* get with the expiry test off by one (>= for >).
getExpiringAtTtl(c, hc, mc, code, language, reviewTypes, t) ==
    LET key == generateKey(code, language, reviewTypes)
        i == indexOf(c, key)
    IN  IF i = 0
        THEN [cache |-> c, hitCount |-> hc, missCount |-> mc + 1, ret |-> Miss]
        ELSE IF t - c[i].createdAt >= ttlMs
        THEN [cache |-> deleteAt(c, i), hitCount |-> hc, missCount |-> mc + 1,
              ret |-> Miss]
        ELSE [cache |-> [c EXCEPT ![i].accessedAt = t, ![i].hits = @ + 1],
              hitCount |-> hc + 1, missCount |-> mc,
              ret |-> [hit |-> TRUE, score |-> c[i].result.score,
                       cachedAt |-> c[i].result.cachedAt, fromCache |-> TRUE,
                       cacheHits |-> c[i].hits + 1]]

\* get that does not count the miss on an expired entry.
getMissUncounted(c, hc, mc, code, language, reviewTypes, t) ==
    LET key == generateKey(code, language, reviewTypes)
        i == indexOf(c, key)
    IN  IF i = 0
        THEN [cache |-> c, hitCount |-> hc, missCount |-> mc + 1, ret |-> Miss]
        ELSE IF entryExpired(c[i], t)
        THEN [cache |-> deleteAt(c, i), hitCount |-> hc, missCount |-> mc,
              ret |-> Miss]
        ELSE [cache |-> [c EXCEPT ![i].accessedAt = t, ![i].hits = @ + 1],
              hitCount |-> hc + 1, missCount |-> mc,
              ret |-> [hit |-> TRUE, score |-> c[i].result.score,
                       cachedAt |-> c[i].result.cachedAt, fromCache |-> TRUE,
                       cacheHits |-> c[i].hits + 1]]

\* get whose hit renews the entry's createdAt along with accessedAt.
getRefreshingCreatedAt(c, hc, mc, code, language, reviewTypes, t) ==
    LET key == generateKey(code, language, reviewTypes)
        i == indexOf(c, key)
    IN  IF i = 0
        THEN [cache |-> c, hitCount |-> hc, missCount |-> mc + 1, ret |-> Miss]
        ELSE IF entryExpired(c[i], t)
        THEN [cache |-> deleteAt(c, i), hitCount |-> hc, missCount |-> mc + 1,
              ret |-> Miss]
        ELSE [cache |-> [c EXCEPT ![i].accessedAt = t, ![i].createdAt = t,
                              ![i].hits = @ + 1],
              hitCount |-> hc + 1, missCount |-> mc,
              ret |-> [hit |-> TRUE, score |-> c[i].result.score,
                       cachedAt |-> c[i].result.cachedAt, fromCache |-> TRUE,
                       cacheHits |-> c[i].hits + 1]]

\* AnalysisCache.get: the map and counters it leaves and the result it returns.
get(c, hc, mc, code, language, reviewTypes, t) ==
    LET key == generateKey(code, language, reviewTypes)
        i == indexOf(c, key)
    IN  IF i = 0
        THEN [cache |-> c, hitCount |-> hc, missCount |-> mc + 1, ret |-> Miss]
        ELSE IF entryExpired(c[i], t)
        THEN [cache |-> deleteAt(c, i), hitCount |-> hc, missCount |-> mc + 1,
              ret |-> Miss]
        ELSE [cache |-> [c EXCEPT ![i].accessedAt = t, ![i].hits = @ + 1],
              hitCount |-> hc + 1, missCount |-> mc,
              ret |-> [hit |-> TRUE, score |-> c[i].result.score,
                       cachedAt |-> c[i].result.cachedAt, fromCache |-> TRUE,
                       cacheHits |-> c[i].hits + 1]]

\* AnalysisCache.evictLRU: the first entry, in the map's order, whose
\* accessedAt is the smallest is deleted.
evictLRU(c) ==
    IF c = << >> THEN c
    ELSE LET oldestKey ==
                 CHOOSE i \in 1..Len(c) :
                     /\ \A j \in 1..Len(c) : c[i].accessedAt <= c[j].accessedAt
                     /\ \A j \in 1..(i - 1) : c[j].accessedAt > c[i].accessedAt
         IN  deleteAt(c, oldestKey)

\* set that keeps the hit count of the entry it replaces.
setKeepingHits(c, code, language, reviewTypes, result, t) ==
    LET key == generateKey(code, language, reviewTypes)
        c1 == IF Len(c) >= maxEntries /\ indexOf(c, key) = 0
              THEN evictLRU(c) ELSE c
        entry == [key |-> key,
                  result |-> [score |-> result, cachedAt |-> t],
                  createdAt |-> t, accessedAt |-> t, hits |-> 0]
        i == indexOf(c1, key)
    IN  IF i = 0 THEN Append(c1, entry)
        ELSE [c1 EXCEPT ![i] = [entry EXCEPT !.hits = c1[i].hits]]

\* set that never evicts.
setWithoutEviction(c, code, language, reviewTypes, result, t) ==
    LET key == generateKey(code, language, reviewTypes)
        c1 == c
        entry == [key |-> key,
                  result |-> [score |-> result, cachedAt |-> t],
                  createdAt |-> t, accessedAt |-> t, hits |-> 0]
        i == indexOf(c1, key)
    IN  IF i = 0 THEN Append(c1, entry) ELSE [c1 EXCEPT ![i] = entry]

\* set that clears the expired entries away before it looks at the capacity.
setPurgingExpired(c, code, language, reviewTypes, result, t) ==
    LET key == generateKey(code, language, reviewTypes)
        c0 == SelectSeq(c, LAMBDA e : ~entryExpired(e, t))
        c1 == IF Len(c0) >= maxEntries /\ indexOf(c0, key) = 0
              THEN evictLRU(c0) ELSE c0
        entry == [key |-> key,
                  result |-> [score |-> result, cachedAt |-> t],
                  createdAt |-> t, accessedAt |-> t, hits |-> 0]
        i == indexOf(c1, key)
    IN  IF i = 0 THEN Append(c1, entry) ELSE [c1 EXCEPT ![i] = entry]

\* AnalysisCache.set: the map it leaves.
set(c, code, language, reviewTypes, result, t) ==
    LET key == generateKey(code, language, reviewTypes)
        c1 == IF Len(c) >= maxEntries /\ indexOf(c, key) = 0
              THEN evictLRU(c) ELSE c
        entry == [key |-> key,
                  result |-> [score |-> result, cachedAt |-> t],
                  createdAt |-> t, accessedAt |-> t, hits |-> 0]
        i == indexOf(c1, key)
    IN  IF i = 0 THEN Append(c1, entry) ELSE [c1 EXCEPT ![i] = entry]

\* has that marks the entry it finds as accessed.
hasTouching(c, code, language, reviewTypes, t) ==
    LET key == generateKey(code, language, reviewTypes)
        i == indexOf(c, key)
    IN  IF i = 0 THEN [cache |-> c, ret |-> FALSE]
        ELSE IF entryExpired(c[i], t)
        THEN [cache |-> deleteAt(c, i), ret |-> FALSE]
        ELSE [cache |-> [c EXCEPT ![i].accessedAt = t], ret |-> TRUE]

\* AnalysisCache.has: the map it leaves and the answer it returns.
has(c, code, language, reviewTypes, t) ==
    LET key == generateKey(code, language, reviewTypes)
        i == indexOf(c, key)
    IN  IF i = 0 THEN [cache |-> c, ret |-> FALSE]
        ELSE IF entryExpired(c[i], t)
        THEN [cache |-> deleteAt(c, i), ret |-> FALSE]
        ELSE [cache |-> c, ret |-> TRUE]

\* The callback of startCleanup: every expired entry is deleted.
cleanup(c, t) == SelectSeq(c, LAMBDA e : ~entryExpired(e, t))

RECURSIVE oldestCreated(_, _, _)
oldestCreated(c, i, oldest) ==
    IF i > Len(c) THEN oldest
    ELSE oldestCreated(c, i + 1,
                       IF c[i].createdAt < oldest THEN c[i].createdAt ELSE oldest)

\* AnalysisCache.getStats; hitRate, a quotient, is held as a fraction
\* (0 / 1 when there were no requests) and a null age as -1.
getStats(c, hc, mc, t) ==
    LET totalRequests == hc + mc
    IN  [totalEntries |-> Len(c), hitCount |-> hc, missCount |-> mc,
         hitRate |-> IF totalRequests > 0
                     THEN [num |-> hc, den |-> totalRequests]
                     ELSE [num |-> 0, den |-> 1],
         oldestEntryAge |-> IF Len(c) > 0 THEN t - oldestCreated(c, 1, t) ELSE -1]

\* A cache as its constructor leaves it, nothing called yet.
CacheNew ==
    /\ cache = << >>
    /\ hitCount = 0 /\ missCount = 0
    /\ cacheOp = "none" /\ cacheKey = << >> /\ cacheRet = NoRet
    /\ cacheOps = 0 /\ nGets = 0
    /\ getsSince = [k \in CacheKeys |-> 0]
    /\ lastSet = [k \in CacheKeys |-> [score |-> 0, t |-> -1]]
    /\ dropped = [k \in CacheKeys |-> FALSE]

\* ---------------------------------------------------- calculateConfidence
\* A text is a list of runs, each a line and the number of times it is
\* repeated; none of the lines ends in ':', so no pattern matches across a
\* line break.

\* The lines the texts are made of: '  ', 'const x = 1;', 'console.log(x)',
\* 'var y: any'.
Lines ==
    { <<32, 32>>,
      <<99, 111, 110, 115, 116, 32, 120, 32, 61, 32, 49, 59>>,
      <<99, 111, 110, 115, 111, 108, 101, 46, 108, 111, 103, 40, 120, 41>>,
      <<118, 97, 114, 32, 121, 58, 32, 97, 110, 121>> }

\* How often a line is repeated: sums of these reach 9, 10, 300 and more.
LineRepeats == {1, 9, 291}

\* The findings' messages: 'Remove console.log statement',
\* 'Function is too long'.
Messages ==
    { <<82, 101, 109, 111, 118, 101, 32, 99, 111, 110, 115, 111, 108, 101, 46, 108, 111, 103, 32, 115, 116, 97, 116, 101, 109, 101, 110, 116>>,
      <<70, 117, 110, 99, 116, 105, 111, 110, 32, 105, 115, 32, 116, 111, 111, 32, 108, 111, 110, 103>> }

\* ProgrammingLanguage values used: 'auto' and two others.
ConfLanguages == {"auto", "typescript", "javascript"}

ConfInputs ==
    [code : SeqsUpTo([line : Lines, times : LineRepeats], MaxRuns),
     detectedLanguage : ConfLanguages,
     specifiedLanguage : {"auto", "typescript"},
     issues : SeqsUpTo(Messages, MaxIssues),
     isDemoMode : BOOLEAN]

\* Math.max where Math.min was meant.
MinAsMax(a, b) == IF a <= b THEN b ELSE a

Min(a, b) == IF a <= b THEN a ELSE b

\* String.prototype.includes
includes(str, p) ==
    \E i \in 1..(Len(str) - Len(p) + 1) : SubSeq(str, i, i + Len(p) - 1) = p

\* \s, as far as the lines go: space, tab, line feed, carriage return.
isSpace(c) == c \in {32, 9, 10, 13}

\* \w
isWordChar(c) == c \in (48..57) \cup (65..90) \cup (97..122) \cup {95}

\* \b between the i-th and the (i+1)-th code unit of str.
wordBoundary(str, i) ==
    (i >= 1 /\ isWordChar(str[i])) # (i < Len(str) /\ isWordChar(str[i + 1]))

\* l.trim().length > 0
nonBlank(l) == \E k \in 1..Len(l) : ~isSpace(l[k])

\* code.split('\n').filter(l => l.trim().length > 0).length
RECURSIVE lineCountOf(_)
lineCountOf(code) ==
    IF code = << >> THEN 0
    ELSE (IF nonBlank(code[1].line) THEN code[1].times ELSE 0)
         + lineCountOf(Tail(code))

\* /class |function |interface |type |const |let /.test(code)
hasStructureOf(code) ==
    \E k \in 1..Len(code) :
        \E w \in { <<99, 108, 97, 115, 115, 32>>,
                   <<102, 117, 110, 99, 116, 105, 111, 110, 32>>,
                   <<105, 110, 116, 101, 114, 102, 97, 99, 101, 32>>,
                   <<116, 121, 112, 101, 32>>,
                   <<99, 111, 110, 115, 116, 32>>,
                   <<108, 101, 116, 32>> } :
            includes(code[k].line, w)

\* /console\.log/.test(code)
hasConsoleLogOf(code) ==
    \E k \in 1..Len(code) : includes(code[k].line, <<99, 111, 110, 115, 111, 108, 101, 46, 108, 111, 103>>)

\* /\bvar\b/.test(code)
hasVarKeywordOf(code) ==
    \E k \in 1..Len(code) :
        LET l == code[k].line
        IN  \E i \in 1..(Len(l) - 2) :
                /\ SubSeq(l, i, i + 2) = <<118, 97, 114>>
                /\ wordBoundary(l, i - 1)
                /\ wordBoundary(l, i + 2)

\* /:\s*any\b/.test(code)
hasAnyTypeOf(code) ==
    \E k \in 1..Len(code) :
        LET l == code[k].line
        IN  \E i \in 1..Len(l), j \in 1..(Len(l) - 2) :
                /\ l[i] = 58
                /\ j > i
                /\ \A m \in (i + 1)..(j - 1) : isSpace(l[m])
                /\ SubSeq(l, j, j + 2) = <<97, 110, 121>>
                /\ wordBoundary(l, j + 2)

\* String.prototype.toLowerCase, on the letters A-Z.
toLowerCase(str) ==
    [k \in 1..Len(str) |-> IF str[k] \in 65..90 THEN str[k] + 32 ELSE str[k]]

\* issues.some(i => message includes 'console.log', 'var' or 'any')
obviousIssuesDetectedOf(issues) ==
    \E k \in 1..Len(issues) :
        \/ includes(toLowerCase(issues[k]), <<99, 111, 110, 115, 111, 108, 101, 46, 108, 111, 103>>)
        \/ includes(toLowerCase(issues[k]), <<118, 97, 114>>)
        \/ includes(toLowerCase(issues[k]), <<97, 110, 121>>)

\* Math.floor where Math.round was meant.
floorTenths(tenths) == tenths \div 10

\* Math.round of tenths / 10 (halves go up).
roundTenths(tenths) == (tenths + 5) \div 10

\* calculateConfidence; languageDetectionScore * 0.3 + issueAccuracyScore * 0.7
\* is computed in tenths, which the doubles of the source represent exactly
\* for these scores.
calculateConfidence(code, detectedLanguage, specifiedLanguage, issues, isDemoMode) ==
    LET languageDetectionScore ==
            IF specifiedLanguage = "auto"
            THEN (IF detectedLanguage = "auto" THEN 30 ELSE 75)
            ELSE 100
        factors1 ==
            IF specifiedLanguage = "auto"
            THEN (IF detectedLanguage = "auto"
                  THEN <<"Unable to detect programming language">>
                  ELSE <<"Auto-detected language">>)
            ELSE << >>
        lineCount == lineCountOf(code)
        score2 == IF lineCount < 10 THEN 100 - 10 ELSE 100
        factors2 == IF lineCount < 10
                    THEN Append(factors1, "Very short code snippet")
                    ELSE factors1
        score2b == IF lineCount > 300 THEN score2 - 10 ELSE score2
        factors2b == IF lineCount > 300
                     THEN Append(factors2, "Large code size may affect completeness")
                     ELSE factors2
        hasStructure == hasStructureOf(code)
        score3 == IF ~hasStructure THEN score2b - 15 ELSE score2b
        factors3 == IF ~hasStructure
                    THEN Append(factors2b, "Code lacks clear structure")
                    ELSE factors2b
        score4 == IF isDemoMode THEN score3 - 20 ELSE score3
        factors4 == IF isDemoMode
                    THEN Append(factors3, "Demo mode (pattern-based detection only)")
                    ELSE factors3
        obviousIssuesExist ==
            hasConsoleLogOf(code) \/ hasVarKeywordOf(code) \/ hasAnyTypeOf(code)
        obviousIssuesDetected == obviousIssuesDetectedOf(issues)
        issueAccuracyScore ==
            IF obviousIssuesExist /\ obviousIssuesDetected /\ ~isDemoMode
            THEN Min(100, score4 + 10)
            ELSE score4
        overall == roundTenths(languageDetectionScore * 3 + issueAccuracyScore * 7)
        level == IF overall >= 75 THEN "high"
                 ELSE IF overall >= 50 THEN "medium"
                 ELSE "low"
        factors8 == IF level = "high" /\ ~isDemoMode
                    THEN <<"AI-powered analysis with Claude 4 Sonnet">> \o factors4
                    ELSE factors4
        factors9 ==
            IF lineCount >= 10 /\ lineCount <= 300 /\ hasStructure
               /\ ~(\E k \in 1..Len(factors8) :
                       \* the factors that include 'short' or 'Large'
                       factors8[k] \in {"Very short code snippet",
                                        "Large code size may affect completeness"})
            THEN <<"Well-structured code of appropriate length">> \o factors8
            ELSE factors8
    IN  [overall |-> Max(0, Min(100, overall)),
         languageDetection |-> Max(0, Min(100, languageDetectionScore)),
         issueAccuracy |-> Max(0, Min(100, issueAccuracyScore)),
         factors |-> factors9,
         level |-> level]

NoScore == [overall |-> 0, languageDetection |-> 0, issueAccuracy |-> 0,
            factors |-> << >>, level |-> "none"]

NoConfArgs == [code |-> << >>, detectedLanguage |-> "auto",
               specifiedLanguage |-> "auto", issues |-> << >>,
               isDemoMode |-> FALSE]

\* No calculateConfidence call at hand.
ConfidenceIdle == confIn = NoConfArgs /\ confOut = NoScore

\* ------------------------------------------------------------ getClientIp
\* A header is null (absent) or a string.

Null == [null |-> TRUE]

Header(v) == [null |-> FALSE, v |-> v]

\* The characters of the header values: '1', ',' and ' '.
HeaderChars == {49, 44, 32}

HeaderValues == {Null} \cup {Header(v) : v \in SeqsUpTo(HeaderChars, MaxHeaderLen)}

RequestHeaders ==
    [xForwardedFor : HeaderValues, cfConnectingIp : HeaderValues,
     xRealIp : HeaderValues]

\* if (h): the header is there and is not the empty string.
truthy(h) == ~h.null /\ h.v # << >>

\* str.split(',')[0]
RECURSIVE firstField(_)
firstField(str) ==
    IF str = << >> \/ Head(str) = 44 THEN << >>
    ELSE <<Head(str)>> \o firstField(Tail(str))

RECURSIVE trimStart(_)
trimStart(str) ==
    IF str # << >> /\ isSpace(Head(str)) THEN trimStart(Tail(str)) ELSE str

RECURSIVE trimEnd(_)
trimEnd(str) ==
    IF str # << >> /\ isSpace(str[Len(str)])
    THEN trimEnd(SubSeq(str, 1, Len(str) - 1))
    ELSE str

\* String.prototype.trim
trim(str) == trimEnd(trimStart(str))

\* getClientIp returning the first field as it stands.
getClientIpUntrimmed(headers) ==
    LET firstIp == IF truthy(headers.xForwardedFor)
                   THEN firstField(headers.xForwardedFor.v)
                   ELSE << >>
    IN  IF firstIp # << >> THEN firstIp
        ELSE IF truthy(headers.cfConnectingIp) THEN headers.cfConnectingIp.v
        ELSE IF truthy(headers.xRealIp) THEN headers.xRealIp.v
        ELSE <<49, 50, 55, 46, 48, 46, 48, 46, 49>>

\* getClientIp
getClientIp(headers) ==
    LET firstIp == IF truthy(headers.xForwardedFor)
                   THEN trim(firstField(headers.xForwardedFor.v))
                   ELSE << >>
    IN  IF firstIp # << >> THEN firstIp
        ELSE IF truthy(headers.cfConnectingIp) THEN headers.cfConnectingIp.v
        ELSE IF truthy(headers.xRealIp) THEN headers.xRealIp.v
        ELSE <<49, 50, 55, 46, 48, 46, 48, 46, 49>>

NoHeaders == [xForwardedFor |-> Null, cfConnectingIp |-> Null, xRealIp |-> Null]

NotCalled == [called |-> FALSE, ip |-> << >>]

\* No getClientIp call at hand.
IpIdle == ipHeaders = NoHeaders /\ ipOut = NotCalled

\* ------------------------------------------------------------ analyzeCode
\* The texts are those of calculateConfidence; none of their lines is a line
\* of a git diff, so config.inputType stays 'code' and the text is analysed
\* as it is.

\* w\s+\w+ within a line.
wordSpaceWord(l, w) ==
    \E i \in 1..Len(l), j \in 1..Len(l) :
        /\ i + Len(w) - 1 <= Len(l)
        /\ SubSeq(l, i, i + Len(w) - 1) = w
        /\ j > i + Len(w)
        /\ \A m \in (i + Len(w))..(j - 1) : isSpace(l[m])
        /\ isWordChar(l[j])

\* w\s+\w+\s*= within a line.
wordSpaceWordEq(l, w) ==
    \E i \in 1..Len(l), j \in 1..Len(l), k \in 1..Len(l), e \in 1..Len(l) :
        /\ i + Len(w) - 1 <= Len(l)
        /\ SubSeq(l, i, i + Len(w) - 1) = w
        /\ j > i + Len(w)
        /\ \A m \in (i + Len(w))..(j - 1) : isSpace(l[m])
        /\ k >= j
        /\ \A m \in j..k : isWordChar(l[m])
        /\ e > k
        /\ \A m \in (k + 1)..(e - 1) : isSpace(l[m])
        /\ l[e] = 61

\* :\s*(string|number|boolean|any)\b within a line.
colonType(l) ==
    \E i \in 1..Len(l), j \in 1..Len(l) :
        /\ l[i] = 58
        /\ j > i
        /\ \A m \in (i + 1)..(j - 1) : isSpace(l[m])
        /\ \E t \in { <<115, 116, 114, 105, 110, 103>>,
                      <<110, 117, 109, 98, 101, 114>>,
                      <<98, 111, 111, 108, 101, 97, 110>>,
                      <<97, 110, 121>> } :
              /\ j + Len(t) - 1 <= Len(l)
              /\ SubSeq(l, j, j + Len(t) - 1) = t
              /\ wordBoundary(l, j + Len(t) - 1)

\* LANGUAGE_PATTERNS without the file-name patterns, in the order of the
\* object's keys.  "lit" stands for a pattern by the literal text it begins
\* with; what follows that text in the pattern is left out, no line of Lines
\* holding the text.
LANGUAGE_PATTERNS ==
    << [lang |-> "typescript",
        patterns |-> << [kind |-> "wsw", w |-> <<105, 110, 116, 101, 114, 102, 97, 99, 101>>],
                        [kind |-> "wswe", w |-> <<116, 121, 112, 101>>],
                        [kind |-> "colonType", w |-> << >>],
                        [kind |-> "lit", w |-> <<105, 109, 112, 111, 114, 116>>] >>],
       [lang |-> "javascript",
        patterns |-> << [kind |-> "lit", w |-> <<105, 109, 112, 111, 114, 116>>],
                        [kind |-> "lit", w |-> <<101, 120, 112, 111, 114, 116>>],
                        [kind |-> "wswe", w |-> <<99, 111, 110, 115, 116>>],
                        [kind |-> "lit", w |-> <<61, 62>>] >>],
       [lang |-> "python",
        patterns |-> << [kind |-> "lit", w |-> <<100, 101, 102>>],
                        [kind |-> "lit", w |-> <<99, 108, 97, 115, 115>>],
                        [kind |-> "wsw", w |-> <<105, 109, 112, 111, 114, 116>>],
                        [kind |-> "lit", w |-> <<102, 114, 111, 109>>],
                        [kind |-> "lit", w |-> <<95, 95, 105, 110, 105, 116, 95, 95>>] >>],
       [lang |-> "java",
        patterns |-> << [kind |-> "lit", w |-> <<112, 117, 98, 108, 105, 99>>],
                        [kind |-> "lit", w |-> <<112, 114, 105, 118, 97, 116, 101>>],
                        [kind |-> "lit", w |-> <<83, 121, 115, 116, 101, 109, 46, 111, 117, 116, 46, 112, 114, 105, 110, 116, 108, 110>>],
                        [kind |-> "lit", w |-> <<64, 79, 118, 101, 114, 114, 105, 100, 101>>] >>],
       [lang |-> "csharp",
        patterns |-> << [kind |-> "wsw", w |-> <<110, 97, 109, 101, 115, 112, 97, 99, 101>>],
                        [kind |-> "lit", w |-> <<117, 115, 105, 110, 103>>],
                        [kind |-> "lit", w |-> <<112, 117, 98, 108, 105, 99>>],
                        [kind |-> "lit", w |-> <<67, 111, 110, 115, 111, 108, 101, 46, 87, 114, 105, 116, 101, 76, 105, 110, 101>>] >>],
       [lang |-> "go",
        patterns |-> << [kind |-> "wsw", w |-> <<112, 97, 99, 107, 97, 103, 101>>],
                        [kind |-> "wsw", w |-> <<102, 117, 110, 99>>],
                        [kind |-> "lit", w |-> <<105, 109, 112, 111, 114, 116>>],
                        [kind |-> "lit", w |-> <<116, 121, 112, 101>>] >>],
       [lang |-> "rust",
        patterns |-> << [kind |-> "wsw", w |-> <<102, 110>>],
                        [kind |-> "lit", w |-> <<108, 101, 116>>],
                        [kind |-> "wsw", w |-> <<105, 109, 112, 108>>],
                        [kind |-> "lit", w |-> <<112, 117, 98>>] >>],
       [lang |-> "cpp",
        patterns |-> << [kind |-> "lit", w |-> <<35, 105, 110, 99, 108, 117, 100, 101>>],
                        [kind |-> "lit", w |-> <<115, 116, 100, 58, 58>>],
                        [kind |-> "wsw", w |-> <<110, 97, 109, 101, 115, 112, 97, 99, 101>>],
                        [kind |-> "lit", w |-> <<116, 101, 109, 112, 108, 97, 116, 101>>] >>] >>

\* pattern.test(code)
patternTest(pattern, code) ==
    \E k \in 1..Len(code) :
        LET l == code[k].line
        IN  CASE pattern.kind = "wsw" -> wordSpaceWord(l, pattern.w)
              [] pattern.kind = "wswe" -> wordSpaceWordEq(l, pattern.w)
              [] pattern.kind = "colonType" -> colonType(l)
              [] OTHER -> includes(l, pattern.w)

\* scores[lang]
languageScore(patterns, code) ==
    Cardinality({n \in 1..Len(patterns) : patternTest(patterns[n], code)})

\* The loop of detectLanguage over the scores from the n-th language on, the
\* best so far being detectedLang with maxScore.
RECURSIVE highestScore(_, _, _, _)
highestScore(n, maxScore, detectedLang, code) ==
    IF n > Len(LANGUAGE_PATTERNS) THEN [maxScore |-> maxScore, lang |-> detectedLang]
    ELSE LET score == languageScore(LANGUAGE_PATTERNS[n].patterns, code)
         IN  IF score > maxScore
             THEN highestScore(n + 1, score, LANGUAGE_PATTERNS[n].lang, code)
             ELSE highestScore(n + 1, maxScore, detectedLang, code)

\* detectLanguage(code), no file name given
detectLanguage(code) ==
    LET best == highestScore(1, 0, "auto", code)
    IN  IF best.maxScore > 0 THEN best.lang ELSE "auto"

\* analyzeCode: the language and the confidence of the result; issues are
\* the findings of the analysis and isDemo is isDemoMode().
analyzeCode(config, issues, isDemo) ==
    LET specifiedLanguage == config.language
        detected == IF config.language = "auto"
                    THEN detectLanguage(config.code)
                    ELSE config.language
        language == IF detected = "auto" THEN "typescript" ELSE detected
    IN  [language |-> language,
         confidence |-> calculateConfidence(config.code, language,
                                            specifiedLanguage, issues, isDemo)]

AnalyzeInputs ==
    [config : [code : SeqsUpTo([line : Lines, times : LineRepeats], MaxRuns),
               language : ConfLanguages],
     issues : SeqsUpTo(Messages, MaxIssues),
     demoMode : BOOLEAN]

NoAnalysis == [language |-> "auto", confidence |-> NoScore]

NoConfig == [config |-> [code |-> << >>, language |-> "auto"],
             issues |-> << >>, demoMode |-> FALSE]

\* No analyzeCode call at hand.
AnalyzeIdle == anaIn = NoConfig /\ anaOut = NoAnalysis

\* ------------------------------------------------------- request handlers

Reqs == 1..NReq

\* Fingerprints (text, language and check set together) of the texts callers
\* submit.
Fps == 1..NFps

\* FilePayload[] of a request: up to n texts, repeats allowed.
FileLists(n) == UNION {[1..k -> Fps] : k \in 0..n}

IdleReq ==
    [pc |-> "idle", route |-> "multi", ip |-> "192.168.1.1", json |-> TRUE,
     files |-> << >>, idx |-> 0, status |-> 0, outcome |-> "none",
     calls |-> 0, consumed |-> 0, cached |-> FALSE,
     limit |-> -1, remaining |-> -1, resetAt |-> -1]

\* ------------------------------------------- the limiter under any client

RECURSIVE SumLen(_, _)
SumLen(h, S) ==
    IF S = {} THEN 0
    ELSE LET i == CHOOSE x \in S : TRUE IN Len(h[i]) + SumLen(h, S \ {i})

InitLimiter ==
    /\ store = << >>
    /\ now = 0
    /\ lastOp = "none"
    /\ lastIp = "192.168.1.1"
    /\ lastResult = NoResult
    /\ hist = [i \in IPs |-> << >>]
    /\ demoMode = FALSE
    /\ reqs = [r \in Reqs |-> IdleReq]
    /\ lastResp = IdleReq
    /\ arrivals = 0
    /\ alog = [i \in IPs |-> << >>]
    /\ answeredAt = [f \in Fps |-> -1]
    /\ keyArgs = NoArgs /\ keyOut = << >>
    /\ prevArgs = NoArgs /\ prevOut = << >>
    /\ CacheNew
    /\ ConfidenceIdle
    /\ AnalyzeIdle
    /\ IpIdle
    /\ NoShadow

\* A check that also drops the entry it finds expired.
CheckSweeping(ip) ==
    /\ lastOp' = "check"
    /\ lastIp' = ip
    /\ lastResult' = check(store, ip, now)
    /\ store' = IF ip \in DOMAIN store /\ windowExpired(store[ip], now)
                THEN [i \in (DOMAIN store) \ {ip} |-> store[i]]
                ELSE store
    /\ UNCHANGED <<now, hist, routeVars, keyVars, cacheVars, confVars, analyzeVars, ipVars, sweepVars>>

\* A client calls rateLimiter.check(ip).
Check(ip) ==
    /\ lastOp' = "check"
    /\ lastIp' = ip
    /\ lastResult' = check(store, ip, now)
    /\ UNCHANGED <<store, now, hist, routeVars, keyVars, cacheVars, confVars, analyzeVars, ipVars, sweepVars>>

\* A client calls rateLimiter.consume(ip).
Consume(ip) ==
    /\ SumLen(hist, IPs) < MaxConsumes
    /\ LET c == consume(store, ip, now)
       IN  /\ store' = c.store
           /\ lastResult' = c.result
           /\ hist' = [hist EXCEPT ![ip] = Append(@, [t |-> now,
                                                      allowed |-> c.result.allowed,
                                                      remaining |-> c.result.remaining])]
    /\ lastOp' = "consume"
    /\ lastIp' = ip
    /\ UNCHANGED <<now, routeVars, keyVars, cacheVars, confVars, analyzeVars, ipVars, sweepVars>>

\* Time passes.
Tick ==
    /\ now < MaxTime
    /\ now' = now + 1
    /\ lastOp' = "tick"
    /\ UNCHANGED <<store, lastIp, lastResult, hist, routeVars, keyVars, cacheVars, confVars, analyzeVars, ipVars, sweepVars>>

NextLimiter ==
    \/ \E ip \in IPs : Check(ip)
    \/ \E ip \in IPs : Consume(ip)
    \/ Tick

Spec == InitLimiter /\ [][NextLimiter]_vars

\* ------------------------------------------------ the limiter and its sweep
\* The limiter with its hourly cleanup firing at any point, next to a limiter
\* that is given the same calls at the same times and is never swept.

SweepCheck(ip) ==
    /\ lastOp' = "check"
    /\ lastIp' = ip
    /\ lastResult' = check(store, ip, now)
    /\ shadowResult' = check(shadow, ip, now)
    /\ UNCHANGED <<store, shadow, now, hist, routeVars, keyVars, cacheVars,
                   confVars, analyzeVars, ipVars>>

SweepConsume(ip) ==
    /\ SumLen(hist, IPs) < MaxConsumes
    /\ LET c == consume(store, ip, now)
           d == consume(shadow, ip, now)
       IN  /\ store' = c.store
           /\ lastResult' = c.result
           /\ shadow' = d.store
           /\ shadowResult' = d.result
           /\ hist' = [hist EXCEPT ![ip] = Append(@, [t |-> now,
                                                      allowed |-> c.result.allowed,
                                                      remaining |-> c.result.remaining])]
    /\ lastOp' = "consume"
    /\ lastIp' = ip
    /\ UNCHANGED <<now, routeVars, keyVars, cacheVars, confVars, analyzeVars,
                   ipVars>>

\* The cleanup interval fires.
LimiterCleanup ==
    /\ store' = limiterCleanup(store, now)
    /\ lastOp' = "cleanup"
    /\ UNCHANGED <<now, lastIp, lastResult, hist, shadow, shadowResult,
                   routeVars, keyVars, cacheVars, confVars, analyzeVars, ipVars>>

NextSweep ==
    \/ \E ip \in IPs : SweepCheck(ip)
    \/ \E ip \in IPs : SweepConsume(ip)
    \/ LimiterCleanup
    \/ Tick

SpecSweep == InitLimiter /\ [][NextSweep]_vars

\* validateMultiFileConfig / validateReviewConfig, as far as the number of
\* texts decides it: at least one text (and at most 20 files).
validateConfig(route, files) ==
    IF route = "multi" THEN Len(files) >= 1 /\ Len(files) <= 20
    ELSE Len(files) = 1

\* A result for fingerprint f was returned before and is no older than ttlMs:
\* the request the specification's result cache would answer.
Answered(f) == answeredAt[f] >= 0 /\ now - answeredAt[f] <= ttlMs

\* The request as the handler receives it.
NewReq(route, ip, json, files) ==
    [IdleReq EXCEPT !.route = route, !.ip = ip, !.json = json, !.files = files,
                    !.cached = /\ files # << >>
                               /\ \A k \in 1..Len(files) : Answered(files[k])]

\* POST /api/analyze-multi that lets a denied caller through to the analysis.
postNoReject(route, ip, json, files) ==
    [NewReq(route, ip, json, files) EXCEPT !.pc = "parse"]

\* POST, up to its first await: /api/analyze-multi consults the limiter, unless
\* in demo mode, and answers a denied caller 429 with the limit and resetAt;
\* /api/analyze goes straight to reading the body.
post(route, ip, json, files) ==
    LET new == NewReq(route, ip, json, files)
        rateLimitCheck == check(store, ip, now)
    IN  IF route = "multi" /\ ~demoMode /\ ~rateLimitCheck.allowed
        THEN [new EXCEPT !.pc = "done", !.status = 429,
                         !.limit = rateLimitCheck.limit,
                         !.remaining = rateLimitCheck.remaining,
                         !.resetAt = rateLimitCheck.resetAt]
        ELSE [new EXCEPT !.pc = "parse"]

\* A request arrives and takes the first free handler slot.
Post(r, route, ip, json, files) ==
    /\ reqs[r].pc = "idle"
    /\ \A r2 \in Reqs : r2 < r => reqs[r2].pc # "idle"
    /\ arrivals < MaxArrivals
    /\ route = "single" => Len(files) <= 1
    /\ ~json => files = << >>
    /\ arrivals' = arrivals + 1
    /\ LET q == post(route, ip, json, files)
       IN  IF q.pc = "done"
           THEN lastResp' = q /\ UNCHANGED reqs
           ELSE reqs' = [reqs EXCEPT ![r] = q] /\ lastResp' = IdleReq
    /\ UNCHANGED <<store, now, demoMode, alog, answeredAt, clientVars, keyVars, cacheVars, confVars, analyzeVars, ipVars, sweepVars>>

\* await request.json() returns (or throws: 500), then the validation (400).
Parse(r) ==
    /\ reqs[r].pc = "parse"
    /\ IF ~reqs[r].json
       THEN /\ lastResp' = [reqs[r] EXCEPT !.pc = "done", !.status = 500]
            /\ reqs' = [reqs EXCEPT ![r] = IdleReq]
       ELSE IF ~validateConfig(reqs[r].route, reqs[r].files)
       THEN /\ lastResp' = [reqs[r] EXCEPT !.pc = "done", !.status = 400]
            /\ reqs' = [reqs EXCEPT ![r] = IdleReq]
       ELSE /\ reqs' = [reqs EXCEPT ![r].pc = "analyse"]
            /\ lastResp' = IdleReq
    /\ UNCHANGED <<store, now, demoMode, arrivals, alog, answeredAt, clientVars, keyVars, cacheVars, confVars, analyzeVars, ipVars, sweepVars>>

\* answeredAt once a result for each of these files has been returned.
Record200(files) ==
    [f \in Fps |-> IF (\E k \in 1..Len(files) : files[k] = f) /\ ~Answered(f)
                   THEN now ELSE answeredAt[f]]

\* The handler with a catch block that records the attempt before answering.
analysisReturnsChargingFailure(r, out) ==
    LET q == reqs[r]
        called == IF demoMode THEN 0 ELSE 1
        last == q.idx + 1 = Len(q.files)
        c == consume(store, q.ip, now)
        metered == q.route = "multi" /\ ~demoMode
    IN  IF out # "ok"
        THEN [req |-> [q EXCEPT !.pc = "done", !.status = 502, !.outcome = out,
                                !.calls = @ + called, !.consumed = @ + 1],
              store |-> IF metered THEN c.store ELSE store,
              alog |-> alog, answeredAt |-> answeredAt]
        ELSE IF ~last
        THEN [req |-> [q EXCEPT !.idx = @ + 1, !.calls = @ + called],
              store |-> store, alog |-> alog, answeredAt |-> answeredAt]
        ELSE IF metered
        THEN [req |-> [q EXCEPT !.pc = "done", !.status = 200, !.outcome = "ok",
                                !.idx = @ + 1, !.calls = @ + called,
                                !.consumed = @ + 1, !.limit = c.result.limit,
                                !.remaining = c.result.remaining,
                                !.resetAt = c.result.resetAt],
              store |-> c.store,
              alog |-> [alog EXCEPT ![q.ip] = Append(@, now)],
              answeredAt |-> Record200(q.files)]
        ELSE [req |-> [q EXCEPT !.pc = "done", !.status = 200, !.outcome = "ok",
                                !.idx = @ + 1, !.calls = @ + called],
              store |-> store, alog |-> alog,
              answeredAt |-> Record200(q.files)]

\* The handler consuming one token per analysed file, as the comment at the
\* top of the handler words it.
analysisReturnsPerFile(r, out) ==
    LET q == reqs[r]
        called == IF demoMode THEN 0 ELSE 1
        last == q.idx + 1 = Len(q.files)
        c == consume(store, q.ip, now)
        metered == q.route = "multi" /\ ~demoMode
    IN  IF out # "ok"
        THEN [req |-> [q EXCEPT !.pc = "done", !.status = 502, !.outcome = out,
                                !.calls = @ + called],
              store |-> store, alog |-> alog, answeredAt |-> answeredAt]
        ELSE IF ~last
        THEN [req |-> [q EXCEPT !.idx = @ + 1, !.calls = @ + called,
                                !.consumed = IF metered THEN @ + 1 ELSE @],
              store |-> IF metered THEN c.store ELSE store,
              alog |-> alog, answeredAt |-> answeredAt]
        ELSE IF metered
        THEN [req |-> [q EXCEPT !.pc = "done", !.status = 200, !.outcome = "ok",
                                !.idx = @ + 1, !.calls = @ + called,
                                !.consumed = @ + 1, !.limit = c.result.limit,
                                !.remaining = c.result.remaining,
                                !.resetAt = c.result.resetAt],
              store |-> c.store,
              alog |-> [alog EXCEPT ![q.ip] = Append(@, now)],
              answeredAt |-> Record200(q.files)]
        ELSE [req |-> [q EXCEPT !.pc = "done", !.status = 200, !.outcome = "ok",
                                !.idx = @ + 1, !.calls = @ + called],
              store |-> store, alog |-> alog,
              answeredAt |-> Record200(q.files)]

\* The awaited analyzeCode of the next file returns: out is what the provider
\* call came to ("ok", "malformed" output that parseAIResponse rejects, or an
\* "error" of the call itself); in demo mode the offline analysis is used and
\* always succeeds.  A failure is rethrown as "Claude API error: ..." and
\* answered 502 from the catch block.  After the last file the handler of
\* /api/analyze-multi consumes, unless in demo mode, and answers 200 with the
\* rate-limit headers; the handler of /api/analyze answers 200.
analysisReturns(r, out) ==
    LET q == reqs[r]
        called == IF demoMode THEN 0 ELSE 1
        last == q.idx + 1 = Len(q.files)
        c == consume(store, q.ip, now)
        metered == q.route = "multi" /\ ~demoMode
    IN  IF out # "ok"
        THEN [req |-> [q EXCEPT !.pc = "done", !.status = 502, !.outcome = out,
                                !.calls = @ + called],
              store |-> store, alog |-> alog, answeredAt |-> answeredAt]
        ELSE IF ~last
        THEN [req |-> [q EXCEPT !.idx = @ + 1, !.calls = @ + called],
              store |-> store, alog |-> alog, answeredAt |-> answeredAt]
        ELSE IF metered
        THEN [req |-> [q EXCEPT !.pc = "done", !.status = 200, !.outcome = "ok",
                                !.idx = @ + 1, !.calls = @ + called,
                                !.consumed = @ + 1, !.limit = c.result.limit,
                                !.remaining = c.result.remaining,
                                !.resetAt = c.result.resetAt],
              store |-> c.store,
              alog |-> [alog EXCEPT ![q.ip] = Append(@, now)],
              answeredAt |-> Record200(q.files)]
        ELSE [req |-> [q EXCEPT !.pc = "done", !.status = 200, !.outcome = "ok",
                                !.idx = @ + 1, !.calls = @ + called],
              store |-> store, alog |-> alog,
              answeredAt |-> Record200(q.files)]

AnalysisReturns(r, out) ==
    /\ reqs[r].pc = "analyse"
    /\ demoMode => out = "ok"
    /\ LET a == analysisReturns(r, out)
       IN  /\ IF a.req.pc = "done"
              THEN lastResp' = a.req /\ reqs' = [reqs EXCEPT ![r] = IdleReq]
              ELSE reqs' = [reqs EXCEPT ![r] = a.req] /\ lastResp' = IdleReq
           /\ store' = a.store
           /\ alog' = a.alog
           /\ answeredAt' = a.answeredAt
    /\ UNCHANGED <<now, demoMode, arrivals, clientVars, keyVars, cacheVars, confVars, analyzeVars, ipVars, sweepVars>>

\* Time passes while requests are in flight.
RouteTick ==
    /\ now < RouteMaxTime
    /\ now' = now + 1
    /\ lastResp' = IdleReq
    /\ UNCHANGED <<store, demoMode, reqs, arrivals, alog, answeredAt, clientVars, keyVars, cacheVars, confVars, analyzeVars, ipVars, sweepVars>>

InitRoute ==
    /\ store = << >>
    /\ now = 0
    /\ lastOp = "none"
    /\ lastIp = "192.168.1.1"
    /\ lastResult = NoResult
    /\ hist = [i \in IPs |-> << >>]
    /\ demoMode \in BOOLEAN
    /\ reqs = [r \in Reqs |-> IdleReq]
    /\ lastResp = IdleReq
    /\ arrivals = 0
    /\ alog = [i \in IPs |-> << >>]
    /\ answeredAt = [f \in Fps |-> -1]
    /\ keyArgs = NoArgs /\ keyOut = << >>
    /\ prevArgs = NoArgs /\ prevOut = << >>
    /\ CacheNew
    /\ ConfidenceIdle
    /\ AnalyzeIdle
    /\ IpIdle
    /\ NoShadow

NextRoute ==
    \/ \E r \in Reqs, route \in {"multi", "single"}, ip \in IPs, json \in BOOLEAN,
          files \in FileLists(MaxFiles) : Post(r, route, ip, json, files)
    \/ \E r \in Reqs : Parse(r)
    \/ \E r \in Reqs, out \in {"ok", "malformed", "error"} : AnalysisReturns(r, out)
    \/ RouteTick

SpecRoute == InitRoute /\ [][NextRoute]_vars

\* ------------------------------------------------ callers of generateKey

\* A caller holds the arguments of a first call.
InitKey ==
    /\ store = << >>
    /\ now = 0
    /\ lastOp = "none"
    /\ lastIp = "192.168.1.1"
    /\ lastResult = NoResult
    /\ hist = [i \in IPs |-> << >>]
    /\ demoMode = FALSE
    /\ reqs = [r \in Reqs |-> IdleReq]
    /\ lastResp = IdleReq
    /\ arrivals = 0
    /\ alog = [i \in IPs |-> << >>]
    /\ answeredAt = [f \in Fps |-> -1]
    /\ keyArgs \in KeyInputs /\ keyOut = << >>
    /\ prevArgs = NoArgs /\ prevOut = << >>
    /\ CacheNew
    /\ ConfidenceIdle
    /\ AnalyzeIdle
    /\ IpIdle
    /\ NoShadow

\* cache.generateKey(code, language, reviewTypes) on the arguments at hand.
GenerateKey ==
    /\ keyOut = << >>
    /\ keyOut' = generateKey(keyArgs.code, keyArgs.language, keyArgs.reviewTypes)
    /\ UNCHANGED <<keyArgs, prevArgs, prevOut, limVars, clientVars, routeVars, cacheVars, confVars, analyzeVars, ipVars, sweepVars>>

\* The caller changes one of the three arguments for the second call.
ChangeArgument(code, language, reviewTypes) ==
    /\ keyOut # << >>
    /\ prevOut = << >>
    /\ \/ code # keyArgs.code /\ language = keyArgs.language
          /\ reviewTypes = keyArgs.reviewTypes
       \/ code = keyArgs.code /\ language # keyArgs.language
          /\ reviewTypes = keyArgs.reviewTypes
       \/ code = keyArgs.code /\ language = keyArgs.language
          /\ reviewTypes # keyArgs.reviewTypes
    /\ prevArgs' = keyArgs
    /\ prevOut' = keyOut
    /\ keyArgs' = [code |-> code, language |-> language, reviewTypes |-> reviewTypes]
    /\ keyOut' = << >>
    /\ UNCHANGED <<limVars, clientVars, routeVars, cacheVars, confVars, analyzeVars, ipVars, sweepVars>>

NextKey ==
    \/ GenerateKey
    \/ \E code \in SeqsUpTo(TextChars, MaxLen) :
          ChangeArgument(code, keyArgs.language, keyArgs.reviewTypes)
    \/ \E language \in Languages :
          ChangeArgument(keyArgs.code, language, keyArgs.reviewTypes)
    \/ \E reviewTypes \in SeqsUpTo(ReviewTypes, MaxTypes) :
          ChangeArgument(keyArgs.code, keyArgs.language, reviewTypes)

SpecKey == InitKey /\ [][NextKey]_vars

\* --------------------------------------------------- callers of the cache

InitCache ==
    /\ store = << >>
    /\ now = 0
    /\ lastOp = "none"
    /\ lastIp = "192.168.1.1"
    /\ lastResult = NoResult
    /\ hist = [i \in IPs |-> << >>]
    /\ demoMode = FALSE
    /\ reqs = [r \in Reqs |-> IdleReq]
    /\ lastResp = IdleReq
    /\ arrivals = 0
    /\ alog = [i \in IPs |-> << >>]
    /\ answeredAt = [f \in Fps |-> -1]
    /\ keyArgs = NoArgs /\ keyOut = << >>
    /\ prevArgs = NoArgs /\ prevOut = << >>
    /\ CacheNew
    /\ ConfidenceIdle
    /\ AnalyzeIdle
    /\ IpIdle
    /\ NoShadow

inCache(c, key) == indexOf(c, key) # 0

\* dropped once the map has become c2 by a call that stored setKey (<< >>:
\* the call stored nothing).
droppedAfter(c2, setKey) ==
    [k \in CacheKeys |->
        IF k = setKey THEN FALSE
        ELSE dropped[k] \/ (inCache(cache, k) /\ ~inCache(c2, k))]

\* A caller calls analysisCache.get(code, language, reviewTypes).
Get(a) ==
    /\ cacheOps < MaxCacheOps
    /\ LET g == get(cache, hitCount, missCount, a.code, a.language,
                    a.reviewTypes, now)
           key == generateKey(a.code, a.language, a.reviewTypes)
       IN  /\ cache' = g.cache
           /\ hitCount' = g.hitCount
           /\ missCount' = g.missCount
           /\ cacheRet' = g.ret
           /\ cacheKey' = key
           /\ getsSince' = [getsSince EXCEPT ![key] = @ + 1]
           /\ dropped' = droppedAfter(g.cache, << >>)
    /\ cacheOp' = "get"
    /\ cacheOps' = cacheOps + 1
    /\ nGets' = nGets + 1
    /\ UNCHANGED <<lastSet, limVars, clientVars, routeVars, keyVars, confVars, analyzeVars, ipVars, sweepVars>>

\* A caller calls analysisCache.set(code, language, reviewTypes, result).
Set(a, result) ==
    /\ cacheOps < MaxCacheOps
    /\ LET key == generateKey(a.code, a.language, a.reviewTypes)
           c2 == set(cache, a.code, a.language, a.reviewTypes, result, now)
       IN  /\ cache' = c2
           /\ cacheKey' = key
           /\ getsSince' = [getsSince EXCEPT ![key] = 0]
           /\ lastSet' = [lastSet EXCEPT ![key] = [score |-> result, t |-> now]]
           /\ dropped' = droppedAfter(c2, key)
    /\ cacheOp' = "set"
    /\ cacheRet' = NoRet
    /\ cacheOps' = cacheOps + 1
    /\ UNCHANGED <<hitCount, missCount, nGets, limVars, clientVars, routeVars,
                   keyVars, confVars, analyzeVars, ipVars, sweepVars>>

\* A caller calls analysisCache.has(code, language, reviewTypes).
Has(a) ==
    /\ cacheOps < MaxCacheOps
    /\ LET h == has(cache, a.code, a.language, a.reviewTypes, now)
       IN  /\ cache' = h.cache
           /\ cacheRet' = [has |-> h.ret]
           /\ dropped' = droppedAfter(h.cache, << >>)
    /\ cacheKey' = generateKey(a.code, a.language, a.reviewTypes)
    /\ cacheOp' = "has"
    /\ cacheOps' = cacheOps + 1
    /\ UNCHANGED <<hitCount, missCount, nGets, getsSince, lastSet, limVars,
                   clientVars, routeVars, keyVars, confVars, analyzeVars, ipVars, sweepVars>>

\* The interval timer of startCleanup fires.
Cleanup ==
    /\ cacheOps < MaxCacheOps
    /\ cache' = cleanup(cache, now)
    /\ dropped' = droppedAfter(cleanup(cache, now), << >>)
    /\ cacheOp' = "cleanup"
    /\ cacheKey' = << >>
    /\ cacheRet' = NoRet
    /\ cacheOps' = cacheOps + 1
    /\ UNCHANGED <<hitCount, missCount, nGets, getsSince, lastSet, limVars,
                   clientVars, routeVars, keyVars, confVars, analyzeVars, ipVars, sweepVars>>

\* A caller calls analysisCache.getStats().
GetStats ==
    /\ cacheOps < MaxCacheOps
    /\ cacheRet' = getStats(cache, hitCount, missCount, now)
    /\ cacheOp' = "getStats"
    /\ cacheKey' = << >>
    /\ cacheOps' = cacheOps + 1
    /\ UNCHANGED <<cache, hitCount, missCount, nGets, getsSince, lastSet,
                   dropped, limVars, clientVars, routeVars, keyVars, confVars, analyzeVars, ipVars, sweepVars>>

\* A caller calls analysisCache.clear().
Clear ==
    /\ cacheOps < MaxCacheOps
    /\ cache' = << >>
    /\ dropped' = droppedAfter(<< >>, << >>)
    /\ cacheOp' = "clear"
    /\ cacheKey' = << >>
    /\ cacheRet' = NoRet
    /\ cacheOps' = cacheOps + 1
    /\ UNCHANGED <<hitCount, missCount, nGets, getsSince, lastSet, limVars,
                   clientVars, routeVars, keyVars, confVars, analyzeVars, ipVars, sweepVars>>

\* A caller calls analysisCache.resetStats().
ResetStats ==
    /\ cacheOps < MaxCacheOps
    /\ hitCount' = 0
    /\ missCount' = 0
    /\ nGets' = 0
    /\ cacheOp' = "resetStats"
    /\ cacheKey' = << >>
    /\ cacheRet' = NoRet
    /\ cacheOps' = cacheOps + 1
    /\ UNCHANGED <<cache, getsSince, lastSet, dropped, limVars, clientVars,
                   routeVars, keyVars, confVars, analyzeVars, ipVars, sweepVars>>

\* Time passes.
CacheTick ==
    /\ now < CacheMaxTime
    /\ now' = now + 1
    /\ cacheOp' = "tick"
    /\ cacheKey' = << >>
    /\ cacheRet' = NoRet
    /\ UNCHANGED <<store, cache, hitCount, missCount, cacheOps, nGets, getsSince,
                   lastSet, dropped, clientVars, routeVars, keyVars, confVars, analyzeVars, ipVars, sweepVars>>

NextCache ==
    \/ \E a \in CacheArgs : Get(a)
    \/ \E a \in CacheArgs, result \in Results : Set(a, result)
    \/ \E a \in CacheArgs : Has(a)
    \/ Cleanup
    \/ GetStats
    \/ Clear
    \/ ResetStats
    \/ CacheTick

SpecCache == InitCache /\ [][NextCache]_vars

\* --------------------------------------- AnalysisCache, texts that collide
\* hashCode('00') = hashCode('2r') = 'b2d8200'.

\* The requests: the texts '00' and '2r' for 'typescript', '00' for
\* 'javascript', and '0'; all with ['solid'].
CollideArgs ==
    << [code |-> <<48, 48>>,
        language |-> <<116, 121, 112, 101, 115, 99, 114, 105, 112, 116>>,
        reviewTypes |-> << <<115, 111, 108, 105, 100>> >>],
       [code |-> <<50, 114>>,
        language |-> <<116, 121, 112, 101, 115, 99, 114, 105, 112, 116>>,
        reviewTypes |-> << <<115, 111, 108, 105, 100>> >>],
       [code |-> <<48, 48>>,
        language |-> <<106, 97, 118, 97, 115, 99, 114, 105, 112, 116>>,
        reviewTypes |-> << <<115, 111, 108, 105, 100>> >>],
       [code |-> <<48>>,
        language |-> <<116, 121, 112, 101, 115, 99, 114, 105, 112, 116>>,
        reviewTypes |-> << <<115, 111, 108, 105, 100>> >>] >>

\* The result of analysing request a: a payload that tells the requests
\* apart (AnalysisResult.score).
AnalysisOf(a) == CHOOSE i \in 1..Len(CollideArgs) : CollideArgs[i] = a

\* A caller calls analysisCache.get(code, language, reviewTypes); the
\* arguments handed to generateKey are kept.
CollideGet(a) ==
    /\ cacheOps < MaxCacheOps
    /\ LET g == get(cache, hitCount, missCount, a.code, a.language,
                    a.reviewTypes, now)
       IN  /\ cache' = g.cache
           /\ hitCount' = g.hitCount
           /\ missCount' = g.missCount
           /\ cacheRet' = g.ret
    /\ keyArgs' = a
    /\ keyOut' = generateKey(a.code, a.language, a.reviewTypes)
    /\ cacheKey' = generateKey(a.code, a.language, a.reviewTypes)
    /\ cacheOp' = "get"
    /\ cacheOps' = cacheOps + 1
    /\ nGets' = nGets + 1
    /\ UNCHANGED <<prevArgs, prevOut, getsSince, lastSet, dropped, limVars,
                   clientVars, routeVars, confVars, analyzeVars, ipVars, sweepVars>>

\* A caller stores the result of analysing a:
\* analysisCache.set(code, language, reviewTypes, result).
CollideSet(a) ==
    /\ cacheOps < MaxCacheOps
    /\ cache' = set(cache, a.code, a.language, a.reviewTypes, AnalysisOf(a), now)
    /\ keyArgs' = a
    /\ keyOut' = generateKey(a.code, a.language, a.reviewTypes)
    /\ cacheKey' = generateKey(a.code, a.language, a.reviewTypes)
    /\ cacheOp' = "set"
    /\ cacheRet' = NoRet
    /\ cacheOps' = cacheOps + 1
    /\ UNCHANGED <<hitCount, missCount, nGets, prevArgs, prevOut, getsSince,
                   lastSet, dropped, limVars, clientVars, routeVars, confVars,
                   analyzeVars, ipVars, sweepVars>>

NextCollide ==
    \/ \E i \in 1..Len(CollideArgs) : CollideGet(CollideArgs[i])
    \/ \E i \in 1..Len(CollideArgs) : CollideSet(CollideArgs[i])
    \/ CacheTick

SpecCollide == InitCache /\ [][NextCollide]_vars

\* ------------------------------------------- callers of calculateConfidence
\* A caller holds any arguments and calls calculateConfidence once.

InitConfidence ==
    /\ store = << >>
    /\ now = 0
    /\ lastOp = "none"
    /\ lastIp = "192.168.1.1"
    /\ lastResult = NoResult
    /\ hist = [i \in IPs |-> << >>]
    /\ demoMode = FALSE
    /\ reqs = [r \in Reqs |-> IdleReq]
    /\ lastResp = IdleReq
    /\ arrivals = 0
    /\ alog = [i \in IPs |-> << >>]
    /\ answeredAt = [f \in Fps |-> -1]
    /\ keyArgs = NoArgs /\ keyOut = << >>
    /\ prevArgs = NoArgs /\ prevOut = << >>
    /\ CacheNew
    /\ confIn \in ConfInputs
    /\ confOut = NoScore
    /\ AnalyzeIdle
    /\ IpIdle
    /\ NoShadow

CalculateConfidence ==
    /\ confOut = NoScore
    /\ confOut' = calculateConfidence(confIn.code, confIn.detectedLanguage,
                                      confIn.specifiedLanguage, confIn.issues,
                                      confIn.isDemoMode)
    /\ UNCHANGED <<confIn, limVars, clientVars, routeVars, keyVars, cacheVars,
                   analyzeVars, ipVars, sweepVars>>

NextConfidence == CalculateConfidence

SpecConfidence == InitConfidence /\ [][NextConfidence]_vars

\* ---------------------------------------------------- callers of analyzeCode
\* A caller holds any config, the analysis returns any findings in either
\* mode, and analyzeCode is called once.

InitAnalyze ==
    /\ store = << >>
    /\ now = 0
    /\ lastOp = "none"
    /\ lastIp = "192.168.1.1"
    /\ lastResult = NoResult
    /\ hist = [i \in IPs |-> << >>]
    /\ demoMode = FALSE
    /\ reqs = [r \in Reqs |-> IdleReq]
    /\ lastResp = IdleReq
    /\ arrivals = 0
    /\ alog = [i \in IPs |-> << >>]
    /\ answeredAt = [f \in Fps |-> -1]
    /\ keyArgs = NoArgs /\ keyOut = << >>
    /\ prevArgs = NoArgs /\ prevOut = << >>
    /\ CacheNew
    /\ ConfidenceIdle
    /\ anaIn \in AnalyzeInputs
    /\ anaOut = NoAnalysis
    /\ IpIdle
    /\ NoShadow

AnalyzeCode ==
    /\ anaOut = NoAnalysis
    /\ anaOut' = analyzeCode(anaIn.config, anaIn.issues, anaIn.demoMode)
    /\ UNCHANGED <<anaIn, limVars, clientVars, routeVars, keyVars, cacheVars,
                   confVars, ipVars, sweepVars>>

NextAnalyze == AnalyzeCode

SpecAnalyze == InitAnalyze /\ [][NextAnalyze]_vars

\* ---------------------------------------------------- callers of getClientIp
\* A request arrives with any headers and getClientIp is called on it once.

InitIp ==
    /\ store = << >>
    /\ now = 0
    /\ lastOp = "none"
    /\ lastIp = "192.168.1.1"
    /\ lastResult = NoResult
    /\ hist = [i \in IPs |-> << >>]
    /\ demoMode = FALSE
    /\ reqs = [r \in Reqs |-> IdleReq]
    /\ lastResp = IdleReq
    /\ arrivals = 0
    /\ alog = [i \in IPs |-> << >>]
    /\ answeredAt = [f \in Fps |-> -1]
    /\ keyArgs = NoArgs /\ keyOut = << >>
    /\ prevArgs = NoArgs /\ prevOut = << >>
    /\ CacheNew
    /\ ConfidenceIdle
    /\ AnalyzeIdle
    /\ ipHeaders \in RequestHeaders
    /\ ipOut = NotCalled
    /\ NoShadow

GetClientIp ==
    /\ ~ipOut.called
    /\ ipOut' = [called |-> TRUE, ip |-> getClientIp(ipHeaders)]
    /\ UNCHANGED <<ipHeaders, limVars, clientVars, routeVars, keyVars,
                   cacheVars, confVars, analyzeVars, sweepVars>>

NextIp == GetClientIp

SpecIp == InitIp /\ [][NextIp]_vars

\* ---------------------------------------------------- claims on the limiter

\* The fixed-window policy as the specification words it, replayed over the
\* times of one caller's consume calls: the first call, and every call made
\* once windowMs has elapsed since the window started, opens a window with a
\* count of 1; any other call adds 1 to the count of the open window.
RECURSIVE WindowAfter(_, _)
WindowAfter(h, k) ==
    IF k = 0 THEN [start |-> 0, n |-> 0]
    ELSE LET p == WindowAfter(h, k - 1)
         IN  IF p.n = 0 \/ h[k].t - p.start >= windowMs
             THEN [start |-> h[k].t, n |-> 1]
             ELSE [start |-> p.start, n |-> p.n + 1]

\* C1: with quota 3, the first 3 consume calls of a caller inside a window are
\* allowed and a 4th inside the same window is denied; the first consume made
\* once the window length has elapsed since the window started is allowed and
\* leaves a fresh entry with count 1 (remaining = limit - 1).
C1_AdmissionWindow ==
    \A ip \in IPs :
        /\ \A k \in 1..Len(hist[ip]) :
              LET w == WindowAfter(hist[ip], k)
              IN  /\ hist[ip][k].allowed = (w.n <= 3)
                  /\ (w.n = 1 => hist[ip][k].remaining = maxRequestsPerDay - 1)
        /\ Len(hist[ip]) > 0 =>
              LET w == WindowAfter(hist[ip], Len(hist[ip]))
              IN  /\ ip \in DOMAIN store
                  /\ store[ip] = [count |-> w.n, windowStart |-> w.start]

\* A caller was allowed 3 times, denied a 4th time in the same window, and
\* allowed again with a fresh count of 1 once the window had elapsed.
C1_Witness ==
    \E ip \in IPs :
        /\ Len(hist[ip]) = 5
        /\ hist[ip][3].allowed /\ ~hist[ip][4].allowed
        /\ hist[ip][4].t - hist[ip][1].t < windowMs
        /\ hist[ip][5].t - hist[ip][1].t >= windowMs
        /\ hist[ip][5].allowed /\ hist[ip][5].remaining = maxRequestsPerDay - 1
        /\ store[ip].count = 1

\* C4: a check call (for any identity, in any state) leaves the store as it
\* was, and with it the result any consume call made next would return.
C4_CheckReadOnly ==
    [][lastOp' = "check" =>
          /\ store' = store
          /\ \A ip \in IPs :
                consume(store', ip, now').result = consume(store, ip, now).result]_vars

\* A check was made on an entry whose window has expired, and the entry is
\* still stored.
C4_Witness ==
    /\ lastOp = "check"
    /\ lastIp \in DOMAIN store
    /\ windowExpired(store[lastIp], now)
    /\ Len(hist[lastIp]) > 0

\* C5: check returns allowed = true and remaining = limit for an identity
\* with no entry or with an expired entry, and allowed = (count < limit),
\* remaining = max(0, limit - count) otherwise; limit is the configured quota.
C5_CheckResult ==
    lastOp = "check" =>
        /\ lastResult.limit = maxRequestsPerDay
        /\ IF lastIp \notin DOMAIN store
              \/ now - store[lastIp].windowStart >= windowMs
           THEN /\ lastResult.allowed
                /\ lastResult.remaining = maxRequestsPerDay
           ELSE /\ lastResult.allowed = (store[lastIp].count < maxRequestsPerDay)
                /\ lastResult.remaining =
                      (IF maxRequestsPerDay - store[lastIp].count > 0
                       THEN maxRequestsPerDay - store[lastIp].count ELSE 0)

\* A check was answered for an entry, still valid, whose count is past the limit.
C5_Witness ==
    /\ lastOp = "check"
    /\ lastIp \in DOMAIN store
    /\ ~windowExpired(store[lastIp], now)
    /\ store[lastIp].count > maxRequestsPerDay
    /\ ~lastResult.allowed /\ lastResult.remaining = 0

\* C6 as stated: every stored entry whose window has not expired has
\* count <= the configured quota.
C6_CountWithinQuota ==
    \A ip \in DOMAIN store :
        ~windowExpired(store[ip], now) => store[ip].count <= maxRequestsPerDay

\* C6 as amended: every stored entry has count >= 1, and its count is within
\* the quota exactly when the latest consume of that caller returned
\* allowed = true; a consume on an entry already at the quota still adds 1
\* to count and returns allowed = false.
C6_CountTracksDenials ==
    \A ip \in DOMAIN store :
        /\ store[ip].count >= 1
        /\ Len(hist[ip]) >= 1
        /\ (store[ip].count <= maxRequestsPerDay) = hist[ip][Len(hist[ip])].allowed

\* A valid entry whose count is past the quota.
C6_Witness ==
    \E ip \in DOMAIN store :
        /\ ~windowExpired(store[ip], now)
        /\ store[ip].count = maxRequestsPerDay + 1
        /\ ~hist[ip][Len(hist[ip])].allowed

\* ------------------------------------------- claims on the request handlers

\* Provider analyses of /api/analyze-multi finished for ip inside the window
\* of its stored entry.
AnalysesInWindow(ip) ==
    Cardinality({k \in 1..Len(alog[ip]) :
                    /\ alog[ip][k] >= store[ip].windowStart
                    /\ alog[ip][k] < store[ip].windowStart + windowMs})

C3_CacheHitSkipsProviderAndConsume ==
    /\ \A r \in Reqs : reqs[r].cached => reqs[r].calls = 0
    /\ lastResp.cached => lastResp.calls = 0 /\ lastResp.consumed = 0

\* C7: a non-demo request whose caller check denies is answered 429 with
\* resetAt and the configured limit in the same step, no request of a denied
\* caller goes on to the analysis, and the rejected request has made no
\* analysis, no provider call and no consume: the store is as it was.
C7_DeniedRejectedAtOnce ==
    /\ [](lastResp.status = 429 =>
            /\ lastResp.pc = "done" /\ lastResp.route = "multi" /\ ~demoMode
            /\ lastResp.idx = 0 /\ lastResp.calls = 0 /\ lastResp.consumed = 0
            /\ lastResp.limit = maxRequestsPerDay)
    /\ [][/\ lastResp'.status = 429 =>
                /\ lastResp'.ip \in DOMAIN store
                /\ ~windowExpired(store[lastResp'.ip], now)
                /\ store[lastResp'.ip].count >= maxRequestsPerDay
                /\ lastResp'.resetAt = store[lastResp'.ip].windowStart + windowMs
                /\ store' = store /\ alog' = alog /\ answeredAt' = answeredAt
                /\ reqs' = reqs
          /\ \A r \in Reqs :
                (/\ reqs[r].pc = "idle" /\ reqs'[r].pc = "parse"
                 /\ reqs'[r].route = "multi" /\ ~demoMode)
                => \/ reqs'[r].ip \notin DOMAIN store
                   \/ windowExpired(store[reqs'[r].ip], now)
                   \/ store[reqs'[r].ip].count < maxRequestsPerDay]_vars

\* A caller who has used up the quota was answered 429.
C7_Witness ==
    /\ lastResp.status = 429
    /\ lastResp.ip \in DOMAIN store
    /\ store[lastResp.ip].count = maxRequestsPerDay
    /\ lastResp.resetAt = store[lastResp.ip].windowStart + windowMs

C9_MalformedConsumes ==
    (lastResp.outcome = "malformed" /\ lastResp.route = "multi")
        => lastResp.consumed = 1

\* C9 as amended: a request for which the provider returned malformed output
\* is answered 502, its result is not cached, and the caller's quota is not
\* consumed: consume is not called and the store is as it was.
C9_MalformedNotCharged ==
    /\ [](lastResp.outcome = "malformed" =>
            /\ lastResp.pc = "done" /\ lastResp.status = 502
            /\ lastResp.calls >= 1 /\ lastResp.consumed = 0)
    /\ [][lastResp'.outcome = "malformed" =>
             store' = store /\ answeredAt' = answeredAt /\ alog' = alog]_vars

\* A caller with a stored entry got malformed provider output on
\* /api/analyze-multi.
C9_Witness ==
    /\ lastResp.outcome = "malformed" /\ lastResp.route = "multi"
    /\ lastResp.ip \in DOMAIN store
    /\ store[lastResp.ip].count = 1

\* ------------------------------------------------- claims on generateKey

\* How often x occurs in the list s.
Occurrences(s, x) == Cardinality({k \in 1..Len(s) : s[k] = x})

\* The two lists hold the same review types the same number of times.
SameTypesAnyOrder(s, t) ==
    \A x \in ReviewTypes : Occurrences(s, x) = Occurrences(t, x)

TypeSet(s) == {s[k] : k \in 1..Len(s)}

\* The two texts have the same length and differ in exactly one code unit.
DifferInOneUnit(a, b) ==
    /\ Len(a) = Len(b)
    /\ Cardinality({k \in 1..Len(a) : a[k] # b[k]}) = 1

\* C10 as stated: the keys of two calls are equal when the calls differ only
\* in the order of the review types, and different when the calls differ in
\* the text, in the language or in the set of review types.
C10_AnyChangeChangesKey ==
    (keyOut # << >> /\ prevOut # << >>) =>
        /\ (/\ keyArgs.code = prevArgs.code
            /\ keyArgs.language = prevArgs.language
            /\ SameTypesAnyOrder(keyArgs.reviewTypes, prevArgs.reviewTypes))
           => keyOut = prevOut
        /\ (\/ keyArgs.code # prevArgs.code
            \/ keyArgs.language # prevArgs.language
            \/ TypeSet(keyArgs.reviewTypes) # TypeSet(prevArgs.reviewTypes))
           => keyOut # prevOut

\* C10 as amended: the keys of two calls are equal when the calls differ only
\* in the order of the review types; they are different when the calls differ
\* in the language, in the set of review types, or in the text provided the
\* 32-bit hashes of the two texts differ, which they do whenever the texts
\* differ in exactly one code unit.  (Two texts with the same hash, such as
\* "00" and "2r", share their key.)
C10_KeyStability ==
    (keyOut # << >> /\ prevOut # << >>) =>
        /\ (/\ keyArgs.code = prevArgs.code
            /\ keyArgs.language = prevArgs.language
            /\ SameTypesAnyOrder(keyArgs.reviewTypes, prevArgs.reviewTypes))
           => keyOut = prevOut
        /\ keyArgs.language # prevArgs.language => keyOut # prevOut
        /\ TypeSet(keyArgs.reviewTypes) # TypeSet(prevArgs.reviewTypes)
           => keyOut # prevOut
        /\ DifferInOneUnit(keyArgs.code, prevArgs.code) => keyOut # prevOut
        /\ (keyArgs.code # prevArgs.code /\ keyOut = prevOut)
           => hashCode(keyArgs.code) = hashCode(prevArgs.code)

\* The key of [solid, hygiene] was generated after the key of
\* [hygiene, solid] for the same text and language, and the two are equal.
C10_Witness ==
    /\ prevOut # << >> /\ keyOut = prevOut
    /\ keyArgs.code = prevArgs.code /\ keyArgs.code # << >>
    /\ keyArgs.language = prevArgs.language
    /\ keyArgs.reviewTypes = << <<115, 111, 108, 105, 100>>,
                                <<104, 121, 103, 105, 101, 110, 101>> >>
    /\ prevArgs.reviewTypes = << <<104, 121, 103, 105, 101, 110, 101>>,
                                 <<115, 111, 108, 105, 100>> >>

\* C11: two calls with the same text and language whose review-type lists
\* denote the same set of types (such as [A, A, B] and [B, A], or [A, A] and
\* [A]) return the same key.
C11_SameSetSameKey ==
    (/\ keyOut # << >> /\ prevOut # << >>
     /\ keyArgs.code = prevArgs.code
     /\ keyArgs.language = prevArgs.language
     /\ TypeSet(keyArgs.reviewTypes) = TypeSet(prevArgs.reviewTypes))
    => keyOut = prevOut

\* --------------------------------------------------- claims on the cache

\* Age, at the time of the call observed, of what the latest set on k stored.
AgeOf(k) == now - lastSet[k].t

\* C12: a get on a key that was never set returns a miss; a get on a key that
\* was set, with no expiry or eviction of its entry since, returns the payload
\* of that set flagged fromCache, and the n-th get since that set reports
\* cacheHits = n; the entry a set leaves has a hit count of 0, also when it
\* replaces an entry that had been hit.
C12_SetThenGetHits ==
    /\ [](/\ cacheOp = "get" =>
                /\ lastSet[cacheKey].t = -1 => cacheRet = Miss
                /\ cacheRet.hit =>
                      /\ cacheRet.score = lastSet[cacheKey].score
                      /\ cacheRet.fromCache
                      /\ cacheRet.cacheHits = getsSince[cacheKey]
          /\ cacheOp = "set" =>
                /\ inCache(cache, cacheKey)
                /\ cache[indexOf(cache, cacheKey)].hits = 0
                /\ cache[indexOf(cache, cacheKey)].result.score
                   = lastSet[cacheKey].score)
    /\ [][(/\ cacheOp' = "get"
            /\ lastSet[cacheKey'].t >= 0
            /\ ~dropped[cacheKey']
            /\ now - lastSet[cacheKey'].t <= ttlMs)
           => cacheRet'.hit]_vars

\* A key was set and hit, set again with another payload and hit twice: the
\* second of these hits reports cacheHits = 2 and the second payload.
C12_Witness ==
    /\ cacheOp = "get" /\ cacheRet.hit
    /\ cacheRet.cacheHits = 2 /\ hitCount = 3 /\ nGets = 3
    /\ Len(cache) = 1 /\ cacheOps = 5

\* C13 as stated: a get made when the age of the entry is TTL or more,
\* exactly TTL included, returns a miss and leaves no entry for the key.
C13_MissFromTtlOnward ==
    (cacheOp = "get" /\ lastSet[cacheKey].t >= 0 /\ AgeOf(cacheKey) >= ttlMs)
        => (cacheRet = Miss /\ ~inCache(cache, cacheKey))

\* C13 as amended: an entry stored at time T (and not evicted) is returned by
\* get at every time up to and including T + TTL; at every time after T + TTL
\* get returns a miss and leaves no entry for the key.
C13_HitThroughTtl ==
    [][(cacheOp' = "get" /\ lastSet[cacheKey'].t >= 0) =>
          /\ (now - lastSet[cacheKey'].t <= ttlMs /\ ~dropped[cacheKey'])
             => (cacheRet'.hit /\ inCache(cache', cacheKey'))
          /\ now - lastSet[cacheKey'].t > ttlMs
             => (cacheRet' = Miss /\ ~inCache(cache', cacheKey'))]_vars

\* A get made exactly TTL after the set was a hit.
C13_Witness ==
    /\ cacheOp = "get" /\ cacheRet.hit
    /\ AgeOf(cacheKey) = ttlMs

\* C14: when a get has just hit an entry and the next call is a set of a new
\* key on a full cache, the set removes exactly one entry, one whose
\* accessedAt was the oldest, and it is not the entry the get touched.
C14_TouchedNotEvicted ==
    [][(/\ cacheOp = "get" /\ cacheRet.hit
        /\ cacheOp' = "set"
        /\ Len(cache) >= maxEntries
        /\ ~inCache(cache, cacheKey'))
       => /\ Len(cache') = Len(cache)
          /\ \E k \in CacheKeys :
                /\ inCache(cache, k) /\ ~inCache(cache', k)
                /\ \A j \in 1..Len(cache) :
                      cache[indexOf(cache, k)].accessedAt <= cache[j].accessedAt
          /\ inCache(cache', cacheKey)]_vars

\* C15: the cache never holds more than maxEntries entries (nor two for one
\* key), and a set on a key that has an entry removes no entry.
C15_SizeWithinCapacity ==
    /\ [](/\ Len(cache) <= maxEntries
          /\ \A i, j \in 1..Len(cache) : cache[i].key = cache[j].key => i = j)
    /\ [][(cacheOp' = "set" /\ inCache(cache, cacheKey'))
          => /\ Len(cache') = Len(cache)
             /\ \A k \in CacheKeys : inCache(cache, k) => inCache(cache', k)]_vars

\* maxEntries + 1 distinct keys were set one after another: the cache is full
\* and one entry was evicted.
C15_Witness ==
    /\ cacheOp = "set" /\ cacheOps = maxEntries + 1
    /\ Len(cache) = maxEntries
    /\ Cardinality({k \in CacheKeys : lastSet[k].t >= 0}) = maxEntries + 1

\* What has is to answer for key k on map c at time t.
LiveEntry(c, k, t) == inCache(c, k) /\ t - c[indexOf(c, k)].createdAt <= ttlMs

\* The keys whose entries a call that turns map c into map c2 removes.
Removed(c, c2) == {k \in CacheKeys : inCache(c, k) /\ ~inCache(c2, k)}

\* C16 as stated: has answers whether a non-expired entry exists, changes
\* neither counter, and changes nothing a later set or get could show: for
\* every set that could come next, the set removes the entries it would have
\* removed without the has call, and every get after it returns what it
\* would have returned without the has call.
C16_HasChangesNothing ==
    [][cacheOp' = "has" =>
          /\ cacheRet'.has = LiveEntry(cache, cacheKey', now)
          /\ hitCount' = hitCount /\ missCount' = missCount
          /\ cache' # cache =>
             \A a1 \in CacheArgs, r \in Results :
                LET without == set(cache, a1.code, a1.language, a1.reviewTypes,
                                   r, now)
                    with == set(cache', a1.code, a1.language, a1.reviewTypes,
                                r, now')
                IN  /\ Removed(cache', with) = Removed(cache, without)
                    /\ \A a2 \in CacheArgs :
                          get(with, hitCount', missCount', a2.code, a2.language,
                              a2.reviewTypes, now').ret
                          = get(without, hitCount, missCount, a2.code,
                                a2.language, a2.reviewTypes, now).ret]_vars

\* C16 as amended: has answers whether a non-expired entry exists and changes
\* neither counter; it removes the entry of its key when that entry has
\* expired and leaves every other entry, with its accessedAt, its hit count and
\* its place in the order, as it was; the get that could come next returns
\* what it would have returned without the has call.
C16_HasOnlyDropsExpired ==
    [][cacheOp' = "has" =>
          /\ cacheRet'.has = LiveEntry(cache, cacheKey', now)
          /\ hitCount' = hitCount /\ missCount' = missCount
          /\ cache' = IF inCache(cache, cacheKey') /\ ~LiveEntry(cache, cacheKey', now)
                      THEN SelectSeq(cache, LAMBDA e : e.key # cacheKey')
                      ELSE cache
          /\ \A a \in CacheArgs :
                get(cache', hitCount', missCount', a.code, a.language,
                    a.reviewTypes, now').ret
                = get(cache, hitCount, missCount, a.code, a.language,
                      a.reviewTypes, now).ret]_vars

\* A key was set and, after its entry had expired, asked for with has, which
\* removed the entry; another entry is still stored.
C16_Witness ==
    /\ cacheOp = "has" /\ ~cacheRet.has
    /\ lastSet[cacheKey].t >= 0 /\ AgeOf(cacheKey) > ttlMs
    /\ dropped[cacheKey] /\ ~inCache(cache, cacheKey)
    /\ cacheOps = 3 /\ Len(cache) = 1

\* C17: hitCount + missCount is the number of get calls since the last
\* resetStats; a get adds 1 to exactly one of the two counters and set, has,
\* clear, the periodic cleanup and getStats change neither; getStats reports
\* hitRate = hitCount / (hitCount + missCount), 0 when there were no gets,
\* and totalEntries = the number of entries stored.
C17_EveryGetCounted ==
    /\ [](/\ hitCount + missCount = nGets
          /\ cacheOp = "getStats" =>
                /\ cacheRet.hitCount = hitCount /\ cacheRet.missCount = missCount
                /\ cacheRet.totalEntries = Len(cache)
                /\ cacheRet.hitRate.den > 0
                /\ IF nGets = 0 THEN cacheRet.hitRate.num = 0
                   ELSE cacheRet.hitRate.num * (hitCount + missCount)
                        = hitCount * cacheRet.hitRate.den)
    /\ [][/\ cacheOp' = "get" =>
                \/ hitCount' = hitCount + 1 /\ missCount' = missCount
                \/ hitCount' = hitCount /\ missCount' = missCount + 1
          /\ cacheOp' \in {"set", "has", "clear", "cleanup", "getStats", "tick"} =>
                hitCount' = hitCount /\ missCount' = missCount]_vars

\* After one hit, one miss on an expired entry and a reset followed by no
\* further get, getStats reports a hit rate of 0 with no entry stored.
C17_Witness ==
    /\ cacheOp = "getStats" /\ cacheOps = 5
    /\ nGets = 0 /\ cacheRet.hitRate.num = 0
    /\ \E k \in CacheKeys : getsSince[k] = 2 /\ dropped[k] /\ AgeOf(k) > ttlMs

\* C18: a get that hits returns what the latest set on the key stored, and
\* that set was made no more than TTL ago; the createdAt of every entry is
\* the time of the latest set on its key, whatever gets were made since, and a
\* hit moves accessedAt to the time of the get.
C18_NeverServedPastTtl ==
    /\ [](/\ (cacheOp = "get" /\ cacheRet.hit) =>
                /\ AgeOf(cacheKey) <= ttlMs
                /\ cacheRet.cachedAt = lastSet[cacheKey].t
                /\ cache[indexOf(cache, cacheKey)].accessedAt = now
          /\ \A i \in 1..Len(cache) :
                /\ cache[i].createdAt = lastSet[cache[i].key].t
                /\ cache[i].accessedAt >= cache[i].createdAt)
    /\ [][cacheOp' = "get" =>
             \A i \in 1..Len(cache) :
                inCache(cache', cache[i].key) =>
                   cache'[indexOf(cache', cache[i].key)].createdAt
                   = cache[i].createdAt]_vars

\* An entry was hit twice in a row and then, asked for again once its age
\* had passed TTL, missed.
C18_Witness ==
    /\ cacheOp = "get" /\ cacheRet = Miss
    /\ getsSince[cacheKey] = 3 /\ hitCount = 2 /\ missCount = 1
    /\ cacheOps = 4 /\ AgeOf(cacheKey) > ttlMs
\* ----------------------------------------------- claims on the confidence

\* C19: the overall score and both sub-scores calculateConfidence returns lie
\* in 0..100, whatever the code, the languages, the findings and the mode.
C19_ScoresWithinRange ==
    confOut.level # "none" =>
        /\ confOut.overall \in 0..100
        /\ confOut.languageDetection \in 0..100
        /\ confOut.issueAccuracy \in 0..100

\* The corroboration bonus is earned on a sub-score that is already 100.
C19_Witness ==
    /\ confOut.level # "none"
    /\ ~confIn.isDemoMode
    /\ hasStructureOf(confIn.code)
    /\ lineCountOf(confIn.code) \in 10..300
    /\ hasConsoleLogOf(confIn.code)
    /\ obviousIssuesDetectedOf(confIn.issues)
    /\ confOut.issueAccuracy = 100

C21_DocumentedLevels ==
    confOut.level # "none" =>
        /\ (confOut.level = "high") <=> (confOut.overall \in 80..100)
        /\ (confOut.level = "medium") <=> (confOut.overall \in 60..79)
        /\ (confOut.level = "low") <=> (confOut.overall < 60)
        /\ confIn.isDemoMode => confOut.level = "low"

\* C22: the language sub-score of the confidence of an analyzeCode result
\* is 100 when config.language names a language, 75 when it is 'auto' and
\* detectLanguage finds a language, 30 when it is 'auto' and detectLanguage
\* finds none.
C22_LanguageSubScore ==
    anaOut # NoAnalysis =>
        anaOut.confidence.languageDetection =
            IF anaIn.config.language # "auto" THEN 100
            ELSE IF detectLanguage(anaIn.config.code) # "auto" THEN 75
            ELSE 30

\* The corroboration bonus of calculateConfidence was earned.
BonusFired(in) ==
    /\ \/ hasConsoleLogOf(in.code)
       \/ hasVarKeywordOf(in.code)
       \/ hasAnyTypeOf(in.code)
    /\ obviousIssuesDetectedOf(in.issues)
    /\ ~in.isDemoMode

\* The reasons of the deductions that fired, in the order of evaluation.
DeductionsFired(in) ==
    (IF in.specifiedLanguage = "auto"
     THEN (IF in.detectedLanguage = "auto"
           THEN <<"Unable to detect programming language">>
           ELSE <<"Auto-detected language">>)
     ELSE << >>)
    \o (IF lineCountOf(in.code) < 10 THEN <<"Very short code snippet">> ELSE << >>)
    \o (IF lineCountOf(in.code) > 300
        THEN <<"Large code size may affect completeness">> ELSE << >>)
    \o (IF ~hasStructureOf(in.code) THEN <<"Code lacks clear structure">> ELSE << >>)
    \o (IF in.isDemoMode
        THEN <<"Demo mode (pattern-based detection only)">> ELSE << >>)

\* The positive factors put in front, the last one put first.
PositivesFired(in, out) ==
    (IF lineCountOf(in.code) \in 10..300 /\ hasStructureOf(in.code)
     THEN <<"Well-structured code of appropriate length">> ELSE << >>)
    \o (IF out.level = "high" /\ ~in.isDemoMode
        THEN <<"AI-powered analysis with Claude 4 Sonnet">> ELSE << >>)

\* C23: the factors returned are the positive factors that apply, then the
\* reasons of the deductions that fired in the order of evaluation, then one
\* entry for the corroboration bonus when it was earned.
C23_EveryAdjustmentListed ==
    confOut.level # "none" =>
        LET pos == PositivesFired(confIn, confOut)
            ded == DeductionsFired(confIn)
            f == confOut.factors
        IN  /\ Len(f) = Len(pos) + Len(ded) + (IF BonusFired(confIn) THEN 1 ELSE 0)
            /\ SubSeq(f, 1, Len(pos)) = pos
            /\ SubSeq(f, Len(pos) + 1, Len(pos) + Len(ded)) = ded

\* ------------------------------------------------------- claims on the caller

\* The first address of a forwarded-for chain, trimmed.
FirstAddress(h) == trim(firstField(h.v))

\* C24 as stated: getClientIp returns the trimmed first address of
\* x-forwarded-for whenever that header is present, else cf-connecting-ip when
\* present, else x-real-ip when present, else 127.0.0.1, and what it returns is
\* never the empty string.
C24_PresentHeaderWins ==
    ipOut.called =>
        /\ ipOut.ip # << >>
        /\ ipOut.ip = IF ~ipHeaders.xForwardedFor.null
                      THEN FirstAddress(ipHeaders.xForwardedFor)
                      ELSE IF ~ipHeaders.cfConnectingIp.null
                      THEN ipHeaders.cfConnectingIp.v
                      ELSE IF ~ipHeaders.xRealIp.null
                      THEN ipHeaders.xRealIp.v
                      ELSE <<49, 50, 55, 46, 48, 46, 48, 46, 49>>

\* C24 as amended: getClientIp returns the trimmed first address of
\* x-forwarded-for when that header is present and the address is not empty,
\* else cf-connecting-ip when present and not empty, else x-real-ip when
\* present and not empty, else 127.0.0.1; it never returns the empty string.
C24_NonEmptyHeaderWins ==
    ipOut.called =>
        LET first == IF ipHeaders.xForwardedFor.null THEN << >>
                     ELSE FirstAddress(ipHeaders.xForwardedFor)
            cf == IF ipHeaders.cfConnectingIp.null THEN << >>
                  ELSE ipHeaders.cfConnectingIp.v
            real == IF ipHeaders.xRealIp.null THEN << >>
                    ELSE ipHeaders.xRealIp.v
        IN  /\ ipOut.ip # << >>
            /\ ipOut.ip = IF first # << >> THEN first
                          ELSE IF cf # << >> THEN cf
                          ELSE IF real # << >> THEN real
                          ELSE <<49, 50, 55, 46, 48, 46, 48, 46, 49>>

\* x-forwarded-for is present with a padded, blank first address, and the
\* cf-connecting-ip header was returned, not the x-real-ip header.
C24_Witness ==
    /\ ipOut.called
    /\ ~ipHeaders.xForwardedFor.null
    /\ ipHeaders.xForwardedFor.v = <<32, 44>>
    /\ ~ipHeaders.cfConnectingIp.null
    /\ ipOut.ip = ipHeaders.cfConnectingIp.v
    /\ ~ipHeaders.xRealIp.null /\ ipHeaders.xRealIp.v # ipOut.ip

\* C25: with the cleanup firing at any points, every check and every consume
\* returns what it returns in a limiter that is given the same calls at the
\* same times and is never swept; the two stores hold the same entries but
\* for entries whose window has expired.
C25_SweepChangesNoResult ==
    /\ lastOp \in {"check", "consume"} => lastResult = shadowResult
    /\ DOMAIN store \subseteq DOMAIN shadow
    /\ \A ip \in DOMAIN shadow :
          IF ip \in DOMAIN store THEN store[ip] = shadow[ip]
          ELSE windowExpired(shadow[ip], now)

\* A caller that had been denied was asked about once its window had expired
\* and the cleanup had removed its entry: the limiter that was never swept
\* still holds the entry and returned the same result.
C25_Witness ==
    /\ lastOp = "check"
    /\ lastIp \notin DOMAIN store
    /\ lastIp \in DOMAIN shadow
    /\ shadow[lastIp].count = maxRequestsPerDay + 1
    /\ lastResult.allowed /\ lastResult.remaining = maxRequestsPerDay
    /\ lastResult = shadowResult

\* The consume calls of ip made from time a to time b that returned allowed.
AllowedBetween(ip, a, b) ==
    Cardinality({k \in 1..Len(hist[ip]) :
                    /\ hist[ip][k].allowed
                    /\ a <= hist[ip][k].t /\ hist[ip][k].t <= b})

CountInWindow(s, ip, t) ==
    IF ip \in DOMAIN s /\ ~windowExpired(s[ip], t) THEN s[ip].count ELSE 0

C27_WitnessOneFile ==
    /\ lastResp.status = 200 /\ lastResp.route = "multi" /\ ~demoMode
    /\ Len(lastResp.files) = 1 /\ lastResp.consumed = 1
    /\ store[lastResp.ip].count = 1
    /\ lastResp.remaining = maxRequestsPerDay - 1

\* ------------------------------------------- claims on colliding texts

\* C28: a get that hits returns the result that was stored for the very
\* request it was called with: the same text, the same language and the same
\* check set; never a result stored for a different text.
C28_HitOnlyForSameText ==
    (cacheOp = "get" /\ cacheRet.hit) => cacheRet.score = AnalysisOf(keyArgs)

\* The result stored for '00' was returned by get('2r', ...).
C28_WrongTextServed ==
    /\ cacheOp = "get" /\ cacheRet.hit
    /\ keyArgs = CollideArgs[2]
    /\ cacheRet.score = AnalysisOf(CollideArgs[1])

\* Apart from the text, a hit is for the language and the check set of the
\* stored request.
C28_HitForSameLanguageAndChecks ==
    (cacheOp = "get" /\ cacheRet.hit) =>
        /\ CollideArgs[cacheRet.score].language = keyArgs.language
        /\ CollideArgs[cacheRet.score].reviewTypes = keyArgs.reviewTypes
        /\ hashCode(CollideArgs[cacheRet.score].code) = hashCode(keyArgs.code)

\* ------------------------------------------ claims on check and consume

\* The caller's entry, if any.
EntryOf(s, ip) == IF ip \in DOMAIN s THEN <<s[ip]>> ELSE << >>

\* C29: in every state and for every caller, if check allows the caller then
\* a consume of that caller, now or at any later time, is allowed as long as
\* the caller's entry is the one check saw; if check denies the caller then a
\* consume at that instant is denied; and the caller's entry is changed by
\* nothing but a consume of that caller (time passing, check, and the
\* consumes of other callers leave it as it was).
C29_CheckAndConsumeAgree ==
    /\ [](\A ip \in IPs :
            LET c == check(store, ip, now)
            IN  /\ c.allowed =>
                      \A t \in now..(MaxTime + windowMs) :
                          consume(store, ip, t).result.allowed
                /\ ~c.allowed => ~consume(store, ip, now).result.allowed)
    /\ [][\A ip \in IPs :
             ~(lastOp' = "consume" /\ lastIp' = ip)
                 => EntryOf(store', ip) = EntryOf(store, ip)]_vars

\* check has just allowed a caller who has one request left in a window
\* opened earlier and about to expire, after the other caller consumed; the
\* consume takes the last slot now and opens a new window later.
C29_Witness ==
    /\ lastOp = "check" /\ lastResult.allowed
    /\ lastIp \in DOMAIN store
    /\ store[lastIp].count = maxRequestsPerDay - 1
    /\ now = store[lastIp].windowStart + windowMs - 1
    /\ \E ip \in DOMAIN store : ip # lastIp
    /\ consume(store, lastIp, now).result.allowed
    /\ consume(store, lastIp, now).result.remaining = 0
    /\ consume(store, lastIp, now + 1).result.remaining = maxRequestsPerDay - 1

\* check has just denied a caller, and a consume at this instant is denied.
C29_WitnessDenied ==
    /\ lastOp = "check" /\ ~lastResult.allowed
    /\ lastResult.resetAt > now
    /\ ~consume(store, lastIp, now).result.allowed

\* ------------------------------------- claims on eviction and expiry

\* The entries of c that are no longer in c2.
Evicted(c, c2) == {i \in 1..Len(c) : ~inCache(c2, c[i].key)}

\* C30: a set of a new key evicts exactly when the map holds maxEntries
\* entries, expired ones counted; it then removes exactly one entry, one
\* whose accessedAt is the smallest of all entries, expired or not, and the
\* map keeps its size; any other set removes nothing.
C30_EvictionIgnoresExpiry ==
    [][cacheOp' = "set" =>
         IF Len(cache) >= maxEntries /\ ~inCache(cache, cacheKey')
         THEN /\ Cardinality(Evicted(cache, cache')) = 1
              /\ \A i \in Evicted(cache, cache') : \A j \in 1..Len(cache) :
                    cache[i].accessedAt <= cache[j].accessedAt
              /\ Len(cache') = Len(cache)
         ELSE Evicted(cache, cache') = {}]_vars

\* After four calls, the last a set made now: the map is full and still
\* holds an entry that had expired before the set, while the entry the set
\* evicted was live.
C30_Witness ==
    /\ cacheOp = "set" /\ cacheOps = 4
    /\ lastSet[cacheKey].t = now
    /\ Len(cache) = maxEntries
    /\ \E i \in 1..Len(cache) : entryExpired(cache[i], now)
    /\ \E k \in CacheKeys :
          /\ dropped[k] /\ ~inCache(cache, k)
          /\ lastSet[k].t >= 0 /\ now - lastSet[k].t <= ttlMs

====
